---- MODULE Spec2Model ----
(***************************************************************************)
(* Membership_Manager: the classifier pipeline of src/llm_classifier.py    *)
(* (rule-based or model-assisted pass, one-time-payment filter, projection *)
(* on memberships, monthly-cost estimation) and its frequency analysis.    *)
(*                                                                         *)
(* Text is modelled character by character: a Python str is a sequence of  *)
(* one-character strings, so that upper(), the regular expressions, strip, *)
(* split and the keyword tests do what the code does.  Amounts are exact   *)
(* numbers of cents, dates are day numbers.  Python's None is None for the *)
(* label fields and NoneCategory for the character-sequence field.         *)
(***************************************************************************)
EXTENDS Integers, Sequences, FiniteSets, TLC

VARIABLES
    use_ai,            \* self.client and Config.USE_AI_CLASSIFICATION
    transactions,      \* the caller's list of dicts, updated in place
    pc,                \* position inside the operation that is running
    i,                 \* loop variable of the batch loop (llm_classifier.py:60)
    classified,        \* list of references (indices into transactions)
    memberships_only,  \* list of references returned to the caller
    requests,          \* service requests issued so far (start index of each batch)
    responses,         \* what the service answered to each request
    after_pass,        \* transactions as the rule/model pass left them
    payments_in,       \* argument of analyze_frequency
    frequency_analysis,\* result of analyze_frequency
    argument,          \* the list as classify_transactions received it
    str_arg,           \* argument of _extract_merchant / _parse_amount
    returns,           \* what the successive applications returned
    document,          \* the file given to parse_pdf / parse_csv
    item,              \* pages or rows of the document consumed so far
    emitted,           \* the parser's local list of transactions
    running_date,      \* _parse_text's current_date; <<>> is None
    line_of,           \* the line each transaction of _parse_text came from
    mailbox,           \* the IMAP server: its messages and how each command ends
    imap,              \* self.imap and the state of its connection
    fetched,           \* ids passed to imap.fetch, in order
    found              \* parse_emails_from_imap's local list of transactions

\* the variables of the classifier, but for pc
callVars == <<use_ai, transactions, i, classified, memberships_only, requests,
              responses, after_pass, payments_in, frequency_analysis, argument>>
classifierVars == <<pc, callVars>>
textVars == <<str_arg, returns>>
statementVars == <<document, item, emitted, running_date, line_of>>
mailVars == <<mailbox, imap, fetched, found>>

vars == <<classifierVars, textVars, statementVars, mailVars>>

(***************************************************************************)
(* Bounds of the model.                                                    *)
(***************************************************************************)
MaxLen == 3        \* longest input list explored exhaustively, rule-based
MaxLenAI == 2      \* longest input list explored exhaustively, model-assisted
MaxResp == 2       \* longest service answer explored exhaustively
MaxBatches == 2    \* most batches of a long model-assisted input
MaxPay == 4        \* longest argument of analyze_frequency

(***************************************************************************)
(* Python values.                                                          *)
(***************************************************************************)
None == "None"
NoneCategory == <<None>>

Min(a, b) == IF a <= b THEN a ELSE b

RECURSIVE SumSeq(_)
SumSeq(s) == IF s = <<>> THEN 0 ELSE Head(s) + SumSeq(Tail(s))

(***************************************************************************)
(* Characters and str methods.                                             *)
(***************************************************************************)
Digits == {"0", "1", "2", "3", "4", "5", "6", "7", "8", "9"}
Whitespace == {" ", "\n"}
LowerLetters == <<"a","b","c","d","e","f","g","h","i","j","k","l","m",
                  "n","o","p","q","r","s","t","u","v","w","x","y","z","é">>
UpperLetters == <<"A","B","C","D","E","F","G","H","I","J","K","L","M",
                  "N","O","P","Q","R","S","T","U","V","W","X","Y","Z","É">>

\* the class [A-ZÀÂÆÇÉÈÊËÎÏÔŒÙÛÜŸ] of the two patterns, on the alphabet used here
PatternLetters == {UpperLetters[k] : k \in 1..Len(UpperLetters)}

UpperChar(c) ==
    IF \E k \in 1..Len(LowerLetters) : LowerLetters[k] = c
    THEN UpperLetters[CHOOSE k \in 1..Len(LowerLetters) : LowerLetters[k] = c]
    ELSE c

\* str.upper()
Upper(s) == [k \in 1..Len(s) |-> UpperChar(s[k])]

\* keyword in text
Contains(text, keyword) ==
    \E k \in 0..(Len(text) - Len(keyword)) :
        SubSeq(text, k + 1, k + Len(keyword)) = keyword

\* any(k in text for k in keywords)
AnyIn(keywords, text) ==
    \E n \in 1..Len(keywords) : Contains(text, keywords[n])

\* first position at or after k whose character is not in class cls
RECURSIVE SkipClass(_, _, _)
SkipClass(s, k, cls) ==
    IF k <= Len(s) /\ s[k] \in cls THEN SkipClass(s, k + 1, cls) ELSE k

\* str.strip()
Strip(s) ==
    LET first == SkipClass(s, 1, Whitespace)
        lasts == {k \in first..Len(s) : s[k] \notin Whitespace}
    IN  IF lasts = {} THEN <<>>
        ELSE SubSeq(s, first, CHOOSE k \in lasts : \A m \in lasts : m <= k)

\* str.split()[0] of a string holding at least one token
FirstToken(s) ==
    LET first == SkipClass(s, 1, Whitespace)
        stop == CHOOSE k \in first..(Len(s) + 1) :
                    /\ (k = Len(s) + 1 \/ s[k] \in Whitespace)
                    /\ \A m \in first..(k - 1) : s[m] \notin Whitespace
    IN  SubSeq(s, first, stop - 1)

(***************************************************************************)
(* The merchant clean-up shared by _classify_batch, _classify_single and   *)
(* _filter_one_time_payments: three re.sub calls and a strip.              *)
(***************************************************************************)
\* end of the match of \d+\s+[A-Z...]+\.?\s* starting at k, 0 when none
DatePatternEnd(s, k) ==
    LET d == SkipClass(s, k, Digits)
        w == SkipClass(s, d, Whitespace)
        l == SkipClass(s, w, PatternLetters)
        p == IF l <= Len(s) /\ s[l] = "." THEN l + 1 ELSE l
    IN  IF d > k /\ w > d /\ l > w THEN SkipClass(s, p, Whitespace) ELSE 0

\* re.sub(date_pattern, "", s), scanning from position k
RECURSIVE SubDatePattern(_, _)
SubDatePattern(s, k) ==
    IF k > Len(s) THEN <<>>
    ELSE IF DatePatternEnd(s, k) # 0 THEN SubDatePattern(s, DatePatternEnd(s, k))
    ELSE <<s[k]>> \o SubDatePattern(s, k + 1)

\* re.sub(r"^[A-Z...]+\.\s*", "", s)
SubAbbrevPattern(s) ==
    LET l == SkipClass(s, 1, PatternLetters)
    IN  IF l > 1 /\ l <= Len(s) /\ s[l] = "."
        THEN SubSeq(s, SkipClass(s, l + 1, Whitespace), Len(s))
        ELSE s

\* re.sub(r"\d+", "", s)
SubDigits(s) == SelectSeq(s, LAMBDA c : c \notin Digits)

MerchantClean(merchant) ==
    Strip(SubDigits(SubAbbrevPattern(SubDatePattern(merchant, 1))))

(***************************************************************************)
(* Keyword tables of _classify_single.                                     *)
(***************************************************************************)
membership_keywords ==
    << <<"S","U","B","S","C","R","I","P","T","I","O","N">>,
       <<"M","E","M","B","E","R","S","H","I","P">>,
       <<"M","O","N","T","H","L","Y">>,
       <<"A","N","N","U","A","L">>,
       <<"R","E","C","U","R","R","I","N","G">>,
       <<"N","E","T","F","L","I","X">>,
       <<"S","P","O","T","I","F","Y">>,
       <<"A","M","A","Z","O","N"," ","P","R","I","M","E">>,
       <<"A","D","O","B","E">>,
       <<"M","I","C","R","O","S","O","F","T"," ","3","6","5">>,
       <<"M","I","C","R","O","S","O","F","T">>,
       <<"C","U","R","S","O","R">>,
       <<"A","P","P","L","E">>,
       <<"G","Y","M">>,
       <<"F","I","T","N","E","S","S">>,
       <<"G","O","L","F">>,
       <<"T","E","N","N","I","S">>,
       <<"Y","O","G","I">>,
       <<"P","I","L","A","T","E","S">>,
       <<"O","F","F","I","C","E">>,
       <<"S","O","F","T","W","A","R","E">>,
       <<"S","a","a","S">>,
       <<"C","L","O","U","D">>,
       <<"N","E","W","S">>,
       <<"T","I","M","E","S">>,
       <<"J","O","U","R","N","A","L">>,
       <<"M","A","G","A","Z","I","N","E">> >>

sport_keywords ==
    << <<"G","Y","M">>,
       <<"F","I","T","N","E","S","S">>,
       <<"G","O","L","F">>,
       <<"T","E","N","N","I","S">>,
       <<"Y","O","G","I">>,
       <<"P","I","L","A","T","E","S">>,
       <<"S","P","O","R","T">> >>

streaming_keywords ==
    << <<"N","E","T","F","L","I","X">>,
       <<"S","P","O","T","I","F","Y">>,
       <<"D","I","S","N","E","Y">>,
       <<"H","U","L","U">>,
       <<"P","R","I","M","E"," ","V","I","D","E","O">>,
       <<"S","T","R","E","A","M","I","N","G">> >>

software_keywords ==
    << <<"A","D","O","B","E">>,
       <<"M","I","C","R","O","S","O","F","T">>,
       <<"O","F","F","I","C","E">>,
       <<"S","O","F","T","W","A","R","E">>,
       <<"S","a","a","S">>,
       <<"C","U","R","S","O","R">>,
       <<"A","P","P","L","E">> >>

news_keywords ==
    << <<"N","E","W","S">>,
       <<"T","I","M","E","S">>,
       <<"J","O","U","R","N","A","L">>,
       <<"M","A","G","A","Z","I","N","E">> >>

S_MONTHLY == <<"M","O","N","T","H","L","Y">>
S_MONTH == <<"M","O","N","T","H">>
S_YEARLY == <<"Y","E","A","R","L","Y">>
S_ANNUAL == <<"A","N","N","U","A","L">>
S_YEAR == <<"Y","E","A","R">>
S_WEEKLY == <<"W","E","E","K","L","Y">>
S_WEEK == <<"W","E","E","K">>
S_Unknown == <<"U","n","k","n","o","w","n">>

(***************************************************************************)
(* Transaction dicts.  A parser emits date, description, amount, merchant; *)
(* the classifier adds the other keys.  A key not yet set reads as None    *)
(* (False for is_membership) through dict.get, which is how every reader   *)
(* of the pipeline reads it; costed tells whether monthly_cost and         *)
(* total_paid have been set.                                               *)
(***************************************************************************)
Parsed(date, description, merchant, amount) ==
    [date |-> date, description |-> description, merchant |-> merchant,
     amount |-> amount, is_membership |-> FALSE, membership_type |-> None,
     frequency |-> None, category |-> NoneCategory, costed |-> FALSE,
     monthly_cost |-> 0, total_paid |-> 0]

\* dict.update with the four keys a classification holds
Update(t, r) ==
    [t EXCEPT !.is_membership = r.is_membership,
              !.membership_type = r.membership_type,
              !.frequency = r.frequency,
              !.category = r.category]

(***************************************************************************)
(* _classify_single: the rule-based classification of one transaction.     *)
(***************************************************************************)
\* a type rule whose streaming bucket was lost
RuleMembershipType_NoStreaming(text) ==
    IF AnyIn(sport_keywords, text) THEN "Sport"
    ELSE IF AnyIn(software_keywords, text) THEN "Software"
    ELSE IF AnyIn(news_keywords, text) THEN "News"
    ELSE "Services"

\* a type rule that tries the streaming bucket before the sport bucket
RuleMembershipType_StreamingFirst(text) ==
    IF AnyIn(streaming_keywords, text) THEN "Streaming"
    ELSE IF AnyIn(sport_keywords, text) THEN "Sport"
    ELSE IF AnyIn(software_keywords, text) THEN "Software"
    ELSE IF AnyIn(news_keywords, text) THEN "News"
    ELSE "Services"

RuleMembershipType(text) ==
    IF AnyIn(sport_keywords, text) THEN "Sport"
    ELSE IF AnyIn(streaming_keywords, text) THEN "Streaming"
    ELSE IF AnyIn(software_keywords, text) THEN "Software"
    ELSE IF AnyIn(news_keywords, text) THEN "News"
    ELSE "Services"

RuleFrequency(text) ==
    IF Contains(text, S_MONTHLY) \/ Contains(text, S_MONTH) THEN "Monthly"
    ELSE IF Contains(text, S_YEARLY) \/ Contains(text, S_ANNUAL)
            \/ Contains(text, S_YEAR) THEN "Yearly"
    ELSE IF Contains(text, S_WEEKLY) \/ Contains(text, S_WEEK) THEN "Weekly"
    ELSE "Monthly"

RuleCategory(description, merchant) ==
    LET merchant_clean ==
            IF merchant # <<>> THEN MerchantClean(merchant) ELSE merchant
    IN  IF description # <<>>
        THEN IF merchant_clean # <<>> THEN merchant_clean
             ELSE FirstToken(description)
        ELSE IF merchant_clean # <<>> THEN merchant_clean ELSE S_Unknown

classify_single(transaction) ==
    LET description == Upper(transaction.description)
        merchant == Upper(transaction.merchant)
        text == description \o <<" ">> \o merchant
        is_membership == AnyIn(membership_keywords, text)
    IN  [is_membership |-> is_membership,
         membership_type |->
             IF is_membership THEN RuleMembershipType(text) ELSE None,
         frequency |-> IF is_membership THEN RuleFrequency(text) ELSE None,
         category |-> RuleCategory(description, merchant)]

\* _rule_based_classify on the transactions at the positions idx of txs
rule_based_classify(txs, idx) ==
    [k \in 1..Len(txs) |->
        IF k \in idx THEN Update(txs[k], classify_single(txs[k])) ELSE txs[k]]

(***************************************************************************)
(* The classification service.  An answer is the text of the completion,   *)
(* modelled by what the parsing chain of _classify_batch makes of it:      *)
(*   error               create() raises, or the response has no content   *)
(*   array               json.loads gives a list                           *)
(*   object_transactions json.loads gives a dict with key "transactions"   *)
(*   object_array        another dict, whose text holds one array          *)
(*   object_single       another dict without brackets, or a JSON scalar:  *)
(*                       classifications = [result]                        *)
(*   text_array          not JSON, a parseable array inside the text       *)
(*   text_badarray       not JSON, brackets whose span is not JSON         *)
(*   text_plain          not JSON, no brackets                             *)
(* payload is the list the kind carries.  An entry of a list is a dict     *)
(* (dict = TRUE, keys = the keys it holds; a JSON null is None, and a null *)
(* is_membership, falsy wherever it is read, is FALSE) or not a dict.      *)
(***************************************************************************)
EntryKeys == {"is_membership", "membership_type", "frequency", "category"}

Entry(keys, is_membership, membership_type, frequency, category) ==
    [dict |-> TRUE, keys |-> keys, is_membership |-> is_membership,
     membership_type |-> membership_type, frequency |-> frequency,
     category |-> category]

NotADict == [Entry({}, FALSE, None, None, NoneCategory) EXCEPT !.dict = FALSE]

\* dict.get(key, default)
Get(d, key, default) == IF key \in d.keys THEN d[key] ELSE default

ListKinds == {"array", "object_transactions", "object_array", "text_array"}

Response(kind, payload) == [kind |-> kind, payload |-> payload]

\* lines 166-185: what the parsing chain makes of an answer
\*   "classifications": the merge loop runs on .classifications
\*   "rule_based": return self._rule_based_classify(transactions), line 185
\*   "raise": an exception reaches the handler of line 207
ParseResponse(response) ==
    IF response.kind \in ListKinds \cup {"object_single"}
    THEN [outcome |-> "classifications", classifications |-> response.payload]
    ELSE IF response.kind = "text_plain"
    THEN [outcome |-> "rule_based", classifications |-> <<>>]
    ELSE [outcome |-> "raise", classifications |-> <<>>]

\* a merge that also stores the answer's clean name as the merchant
MergeEntry_RenamesMerchant(transaction, classification) ==
    [Update(transaction,
           [is_membership |-> Get(classification, "is_membership", FALSE),
            membership_type |-> Get(classification, "membership_type", None),
            frequency |-> Get(classification, "frequency", None),
            category |-> Get(classification, "category", transaction.merchant)])
        EXCEPT !.merchant = Get(classification, "category", transaction.merchant)]

\* lines 190-200: one transaction takes the entry at its position
MergeEntry(transaction, classification) ==
    Update(transaction,
           [is_membership |-> Get(classification, "is_membership", FALSE),
            membership_type |-> Get(classification, "membership_type", None),
            frequency |-> Get(classification, "frequency", None),
            category |-> Get(classification, "category", transaction.merchant)])

\* lines 188-203 from position k of the batch lo..hi on; raised tells that
\* classification.get failed on an entry that is not a dict
RECURSIVE MergeLoop(_, _, _, _, _)
MergeLoop(txs, lo, hi, classifications, k) ==
    IF k > hi THEN [raised |-> FALSE, txs |-> txs]
    ELSE IF k - lo + 1 <= Len(classifications)
    THEN IF classifications[k - lo + 1].dict
         THEN MergeLoop([txs EXCEPT ![k] =
                            MergeEntry(txs[k], classifications[k - lo + 1])],
                        lo, hi, classifications, k + 1)
         ELSE [raised |-> TRUE, txs |-> txs]
    ELSE MergeLoop([txs EXCEPT ![k] = Update(txs[k], classify_single(txs[k]))],
                   lo, hi, classifications, k + 1)

\* a handler that swallows the exception and leaves the batch as it is
except_handler_swallow(txs, lo, hi) == txs

\* a handler that falls back on the whole input instead of the batch
except_handler_all(txs, lo, hi) == rule_based_classify(txs, 1..Len(txs))

\* the handler of lines 207-209
except_handler(txs, lo, hi) == rule_based_classify(txs, lo..hi)

\* _classify_batch on the batch at positions lo..hi, given the answer; the
\* prompt built by lines 85-135 changes no dict
classify_batch(txs, lo, hi, response) ==
    LET parsed == ParseResponse(response)
        merged == MergeLoop(txs, lo, hi, parsed.classifications, lo)
    IN  IF parsed.outcome = "rule_based" THEN rule_based_classify(txs, lo..hi)
        ELSE IF parsed.outcome = "raise" THEN except_handler(txs, lo, hi)
        ELSE IF merged.raised THEN except_handler(merged.txs, lo, hi)
        ELSE merged.txs

(***************************************************************************)
(* _filter_one_time_payments.                                              *)
(***************************************************************************)
\* the key a membership is grouped under (lines 353-362)
FilterKey(t) ==
    LET merchant_clean == MerchantClean(Upper(t.merchant))
    IN  IF merchant_clean = <<>> THEN S_Unknown ELSE merchant_clean

\* positions in order of the elements of a list of references that satisfy Test
Positions(n, Test(_)) == SelectSeq([k \in 1..n |-> k], Test)

filter_one_time_payments(txs) ==
    LET by_merchant(key) ==
            Positions(Len(txs),
                      LAMBDA k : txs[k].is_membership /\ FilterKey(txs[k]) = key)
    IN  [k \in 1..Len(txs) |->
            IF txs[k].is_membership /\ Len(by_merchant(FilterKey(txs[k]))) = 1
            THEN [txs[k] EXCEPT !.is_membership = FALSE,
                                !.membership_type = None,
                                !.frequency = None]
            ELSE txs[k]]

\* a projection that keeps every classified transaction
memberships_of_all(txs, refs) == refs

\* line 71: [t for t in classified if t.get("is_membership")]
memberships_of(txs, refs) == SelectSeq(refs, LAMBDA k : txs[k].is_membership)

(***************************************************************************)
(* _add_monthly_costs.  round(x, 2) of x = num / den cents is the nearest  *)
(* whole number of cents, the even one of the two at a tie (the rule of    *)
(* Python's round; binary representation error is not modelled).           *)
(***************************************************************************)
Round2(num, den) ==
    LET q == num \div den
        r == num % den
    IN  IF 2 * r < den THEN q
        ELSE IF 2 * r > den THEN q + 1
        ELSE IF q % 2 = 0 THEN q ELSE q + 1

\* a conversion that counts four weeks to the month
MonthlyCost_FourWeeks(frequency, sum, len) ==
    IF frequency = "Yearly" THEN Round2(sum, len * 12)
    ELSE IF frequency = "Weekly" THEN Round2(sum * 4, len)
    ELSE IF frequency = "Quarterly" THEN Round2(sum, len * 3)
    ELSE IF frequency = "Bi-annual" THEN Round2(sum, len * 6)
    ELSE Round2(sum, len)

\* lines 394-403 and 408: the monthly cost of a group, sum and len of amounts
MonthlyCost(frequency, sum, len) ==
    IF frequency = "Yearly" THEN Round2(sum, len * 12)
    ELSE IF frequency = "Weekly" THEN Round2(sum * 433, len * 100)
    ELSE IF frequency = "Quarterly" THEN Round2(sum, len * 3)
    ELSE IF frequency = "Bi-annual" THEN Round2(sum, len * 6)
    ELSE Round2(sum, len)

\* a total that takes the last amount of the group only
total_paid_last(amounts) == amounts[Len(amounts)]

\* line 409
total_paid_of(amounts) == SumSeq(amounts)

\* a conversion that takes each record's own frequency
add_monthly_costs_OwnFrequency(txs, memberships) ==
    LET by_category(category) ==
            SelectSeq(memberships, LAMBDA k : txs[k].category = category)
        amounts(category) ==
            [n \in 1..Len(by_category(category)) |->
                txs[by_category(category)[n]].amount]
        InList(k) == \E n \in 1..Len(memberships) : memberships[n] = k
    IN  [k \in 1..Len(txs) |->
            IF InList(k)
            THEN [txs[k] EXCEPT
                    !.costed = TRUE,
                    !.monthly_cost =
                        MonthlyCost(txs[k].frequency,
                                    SumSeq(amounts(txs[k].category)),
                                    Len(amounts(txs[k].category))),
                    !.total_paid = total_paid_of(amounts(txs[k].category))]
            ELSE txs[k]]

\* memberships is a list of references into txs; every dict of the list holds
\* the keys category and frequency, so that .get never takes its default
add_monthly_costs(txs, memberships) ==
    LET by_category(category) ==
            SelectSeq(memberships, LAMBDA k : txs[k].category = category)
        amounts(category) ==
            [n \in 1..Len(by_category(category)) |->
                txs[by_category(category)[n]].amount]
        frequency(category) == txs[by_category(category)[1]].frequency
        InList(k) == \E n \in 1..Len(memberships) : memberships[n] = k
    IN  [k \in 1..Len(txs) |->
            IF InList(k)
            THEN [txs[k] EXCEPT
                    !.costed = TRUE,
                    !.monthly_cost =
                        MonthlyCost(frequency(txs[k].category),
                                    SumSeq(amounts(txs[k].category)),
                                    Len(amounts(txs[k].category))),
                    !.total_paid = total_paid_of(amounts(txs[k].category))]
            ELSE txs[k]]

(***************************************************************************)
(* Inputs of classify_transactions: lists of parsed transactions.  The     *)
(* k-th transaction of a list is dated 30 days after the one before it.    *)
(***************************************************************************)
Raw(description, merchant, amount) ==
    [description |-> description, merchant |-> merchant, amount |-> amount]

T_NETFLIX == Raw(<<"N","E","T","F","L","I","X">>,
                 <<"N","E","T","F","L","I","X">>, 1500)
T_RANDOM_SHOP == Raw(<<"S","O","F","T","W","A","R","E">>,
                     <<"R","A","N","D","O","M"," ","S","H","O","P">>, 4999)
T_12_NETFLIX == Raw(<<"1","2"," ","N","e","t","f","l","i","x">>,
                    <<"1","2"," ","N","E","T","F","L","I","X">>, 1500)
T_13_SPOTIFY == Raw(<<"1","3"," ","S","p","o","t","i","f","y">>,
                    <<"1","3"," ","S","P","O","T","I","F","Y">>, 999)
T_GYM == Raw(<<"G","y","m"," ","w","e","e","k","l","y">>,
             <<"G","Y","M"," ","W","E","E","K","L","Y">>, 1000)
T_ADOBE == Raw(<<"A","D","O","B","E"," ","A","N","N","U","A","L">>,
               <<"A","D","O","B","E"," ","A","N","N","U","A","L">>, 12000)
T_GROCERY == Raw(<<"G","r","o","c","e","r","y"," ","4","2">>,
                 <<"G","R","O","C","E","R","Y"," ","4","2">>, 2350)
T_DEC_NETFLIX == Raw(<<"2","1"," ","d","é","c","."," ","N","e","t","f","l","i","x">>,
                     <<"2","1"," ","D","É","C","."," ","N","E","T","F","L","I","X">>,
                     1501)

Pool == {T_NETFLIX, T_RANDOM_SHOP, T_12_NETFLIX, T_13_SPOTIFY, T_GYM, T_ADOBE,
         T_GROCERY, T_DEC_NETFLIX}
PoolAI == {T_NETFLIX, T_RANDOM_SHOP, T_GROCERY}
PoolLong == {T_NETFLIX, T_GROCERY}

batch_size == 20

AsTransactions(input) ==
    [k \in 1..Len(input) |->
        Parsed(30 * (k - 1), input[k].description, input[k].merchant,
               input[k].amount)]

ListsOver(S, n) == UNION {[1..m -> S] : m \in 0..n}

\* the date of a dict that has no date key: _parse_table sets it only for a
\* filled cell under a date header (bank_parser.py:119-123)
NoDate == -1

\* the list with the date key of transaction k missing; k = 0: none missing
Undated(txs, k) == [n \in 1..Len(txs) |->
                      IF n = k THEN [txs[n] EXCEPT !.date = NoDate] ELSE txs[n]]

\* which transaction of a list of n has no date: none, the first or the last
\* (explored for the model-assisted lists and the rule-based lists as short)
UndatedChoices(n) == {0} \cup ({1, n} \cap 1..n)

\* inputs of more than one batch: two transactions in alternation
LongInputs ==
    {[k \in 1..((b - 1) * batch_size + 1) |-> IF k % 2 = 1 THEN x ELSE y] :
        x \in PoolLong, y \in PoolLong, b \in 2..MaxBatches}

(***************************************************************************)
(* Answers of the service.                                                 *)
(***************************************************************************)
C_NETFLIX == <<"N","E","T","F","L","I","X">>
C_SHOP == <<"S","H","O","P">>

E_Quarterly == Entry(EntryKeys, TRUE, "Streaming", "Quarterly", C_NETFLIX)
E_OnlyFlag == Entry({"is_membership"}, TRUE, None, None, NoneCategory)
E_NotMember == Entry(EntryKeys, FALSE, None, None, C_SHOP)
E_NullCategory == Entry(EntryKeys, TRUE, "Software", "Bi-annual", NoneCategory)
E_NoFlag == Entry(EntryKeys \ {"is_membership"}, FALSE, "Sport", "Weekly", C_SHOP)

Entries == {E_Quarterly, E_OnlyFlag, E_NotMember, E_NullCategory, E_NoFlag,
            NotADict}

Uniform(e, n) == [k \in 1..n |-> e]

\* the answers explored for a batch of n transactions of an input of one batch
ShortResponses(n) ==
    {Response("array", payload) : payload \in ListsOver(Entries, MaxResp)}
    \cup {Response(kind, Uniform(e, n)) : kind \in ListKinds, e \in Entries}
    \cup {Response("object_single", <<e>>) : e \in Entries}
    \cup {Response(kind, <<>>) : kind \in {"error", "text_badarray", "text_plain"}}

\* the answers explored for a batch of n transactions of a longer input
LongResponses(n) ==
    {Response("error", <<>>), Response("text_plain", <<>>),
     Response("array", Uniform(E_Quarterly, n)),
     Response("array", Uniform(E_NotMember, n)),
     Response("array", <<E_OnlyFlag>>)}

Responses(total, n) ==
    IF total > batch_size THEN LongResponses(n) ELSE ShortResponses(n)

(***************************************************************************)
(* classify_transactions, one action per stage of lines 49-76.             *)
(***************************************************************************)
NoAnalysis == [category \in {} |-> 0]

\* the variables of the operations that are not running
TextIdle == str_arg = <<>> /\ returns = <<>>
StatementIdle ==
    /\ document = <<>> /\ item = 0 /\ emitted = <<>>
    /\ running_date = <<>> /\ line_of = <<>>
MailIdle == mailbox = <<>> /\ imap = None /\ fetched = <<>> /\ found = <<>>

Init ==
    /\ use_ai \in BOOLEAN
    /\ \E input \in IF use_ai THEN ListsOver(PoolAI, MaxLenAI) \cup LongInputs
                    ELSE ListsOver(Pool, MaxLen) :
          \E k \in IF Len(input) <= MaxLenAI \/ use_ai
                    THEN UndatedChoices(Len(input)) ELSE {0} :
              transactions = Undated(AsTransactions(input), k)
    /\ pc = "classify"
    /\ i = 0
    /\ classified = <<>>
    /\ memberships_only = <<>>
    /\ requests = <<>>
    /\ responses = <<>>
    /\ after_pass = <<>>
    /\ payments_in = <<>>
    /\ frequency_analysis = NoAnalysis
    /\ argument = transactions
    /\ TextIdle /\ StatementIdle /\ MailIdle

\* line 54
ClassifyRule ==
    /\ pc = "classify" /\ ~use_ai
    /\ transactions' = rule_based_classify(transactions, 1..Len(transactions))
    /\ classified' = [k \in 1..Len(transactions) |-> k]
    /\ after_pass' = transactions'
    /\ pc' = "filter"
    /\ UNCHANGED <<use_ai, i, memberships_only, requests, responses,
                   payments_in, frequency_analysis>>
    /\ UNCHANGED <<argument, textVars, statementVars, mailVars>>

\* the prompt of a batch (lines 111-120) reads t['amount'] and t['date'] of
\* each of its transactions, outside the try of line 137
prompt_raises(txs, lo, hi) == \E k \in lo..hi : txs[k].date = NoDate

\* one turn of the loop of lines 60-65 whose prompt raises KeyError: the
\* exception leaves classify_transactions
PromptRaises ==
    /\ pc = "classify" /\ use_ai /\ i < Len(transactions)
    /\ prompt_raises(transactions, i + 1, Min(i + batch_size, Len(transactions)))
    /\ pc' = "raised"
    /\ UNCHANGED <<use_ai, transactions, i, classified, memberships_only,
                   requests, responses, after_pass, payments_in,
                   frequency_analysis>>
    /\ UNCHANGED <<argument, textVars, statementVars, mailVars>>

\* one turn of the loop of lines 60-65: the request of one batch, its answer
ClassifyBatch ==
    /\ pc = "classify" /\ use_ai /\ i < Len(transactions)
    /\ ~prompt_raises(transactions, i + 1, Min(i + batch_size, Len(transactions)))
    /\ LET lo == i + 1
           hi == Min(i + batch_size, Len(transactions))
       IN  \E response \in Responses(Len(transactions), hi - lo + 1) :
               /\ requests' = Append(requests, i)
               /\ responses' = Append(responses, response)
               /\ transactions' = classify_batch(transactions, lo, hi, response)
               /\ classified' = classified \o [k \in 1..(hi - lo + 1) |-> i + k]
    /\ i' = i + batch_size
    /\ UNCHANGED <<use_ai, pc, memberships_only, after_pass, payments_in,
                   frequency_analysis>>
    /\ UNCHANGED <<argument, textVars, statementVars, mailVars>>

\* the loop of line 60 ends
EndBatches ==
    /\ pc = "classify" /\ use_ai /\ i >= Len(transactions)
    /\ after_pass' = transactions
    /\ pc' = "filter"
    /\ UNCHANGED <<use_ai, transactions, i, classified, memberships_only,
                   requests, responses, payments_in, frequency_analysis>>
    /\ UNCHANGED <<argument, textVars, statementVars, mailVars>>

\* line 68; classified holds every transaction, in order
FilterOneTime ==
    /\ pc = "filter"
    /\ transactions' = filter_one_time_payments(transactions)
    /\ pc' = "project"
    /\ UNCHANGED <<use_ai, i, classified, memberships_only, requests, responses,
                   after_pass, payments_in, frequency_analysis>>
    /\ UNCHANGED <<argument, textVars, statementVars, mailVars>>

\* line 71
Project ==
    /\ pc = "project"
    /\ memberships_only' = memberships_of(transactions, classified)
    /\ pc' = "costs"
    /\ UNCHANGED <<use_ai, transactions, i, classified, requests, responses,
                   after_pass, payments_in, frequency_analysis>>
    /\ UNCHANGED <<argument, textVars, statementVars, mailVars>>

\* lines 74-76
AddMonthlyCosts ==
    /\ pc = "costs"
    /\ transactions' = add_monthly_costs(transactions, memberships_only)
    /\ pc' = "done"
    /\ UNCHANGED <<use_ai, i, classified, memberships_only, requests, responses,
                   after_pass, payments_in, frequency_analysis>>
    /\ UNCHANGED <<argument, textVars, statementVars, mailVars>>

Next ==
    \/ ClassifyRule
    \/ PromptRaises
    \/ ClassifyBatch
    \/ EndBatches
    \/ FilterOneTime
    \/ Project
    \/ AddMonthlyCosts

Spec == Init /\ [][Next]_vars

\* the list classify_transactions returns
Returned == [n \in 1..Len(memberships_only) |-> transactions[memberships_only[n]]]

(***************************************************************************)
(* analyze_frequency.  An average is the pair of the sum and the number of *)
(* terms, so that sum / len is exact.                                      *)
(***************************************************************************)
Average(terms) == [num |-> SumSeq(terms), den |-> Len(terms)]

\* lo <= average <= hi
Between(lo, average, hi) ==
    lo * average.den <= average.num /\ average.num <= hi * average.den

\* list.sort(key=lambda x: x["date"]): stable, ascending
RECURSIVE SortByDate(_)
SortByDate(payments) ==
    IF payments = <<>> THEN <<>>
    ELSE LET n == Len(payments)
             sorted == SortByDate(SubSeq(payments, 1, n - 1))
             before == Cardinality({k \in 1..(n - 1) :
                                       sorted[k].date <= payments[n].date})
         IN  SubSeq(sorted, 1, before) \o <<payments[n]>>
             \o SubSeq(sorted, before + 1, n - 1)

\* lines 443-454
FrequencyLabel(avg_interval) ==
    IF Between(25, avg_interval, 35) THEN "Monthly"
    ELSE IF Between(85, avg_interval, 95) THEN "Quarterly"
    ELSE IF Between(360, avg_interval, 370) THEN "Yearly"
    ELSE IF Between(175, avg_interval, 185) THEN "Bi-annual"
    ELSE IF Between(7, avg_interval, 9) THEN "Weekly"
    ELSE "Every " \o ToString(avg_interval.num \div avg_interval.den) \o " days"

\* a grouping that forgets the is_membership test of line 419
payments_of_any(txs, category) ==
    LET refs == SelectSeq([k \in 1..Len(txs) |-> k],
                          LAMBDA k : Get(txs[k], "category", S_Unknown) = category)
    IN  [n \in 1..Len(refs) |->
            [date |-> txs[refs[n]].date, amount |-> txs[refs[n]].amount]]

\* lines 418-421: the payments grouped under a category, in list order
payments_of(txs, category) ==
    LET refs == SelectSeq([k \in 1..Len(txs) |-> k],
                          LAMBDA k : /\ Get(txs[k], "is_membership", FALSE)
                                     /\ Get(txs[k], "category", S_Unknown) = category)
    IN  [n \in 1..Len(refs) |->
            [date |-> txs[refs[n]].date, amount |-> txs[refs[n]].amount]]

analyze_frequency(txs) ==
    LET by_category ==
            {Get(txs[k], "category", S_Unknown) :
                k \in {j \in 1..Len(txs) : Get(txs[j], "is_membership", FALSE)}}
        analysed == {c \in by_category : Len(payments_of(txs, c)) >= 2}
        stats(category) ==
            LET payments == SortByDate(payments_of(txs, category))
                intervals == [n \in 1..(Len(payments) - 1) |->
                                 payments[n + 1].date - payments[n].date]
                amounts == [n \in 1..Len(payments) |-> payments[n].amount]
            IN  [frequency |-> FrequencyLabel(Average(intervals)),
                 avg_interval_days |-> Average(intervals),
                 count |-> Len(payments),
                 total_amount |-> SumSeq(amounts),
                 avg_amount |-> Average(amounts)]
    IN  [category \in analysed |-> stats(category)]

(***************************************************************************)
(* Arguments of analyze_frequency: dicts with the keys named in keys.      *)
(***************************************************************************)
PaymentKeys == {"date", "amount", "category", "is_membership"}

Payment(keys, is_membership, category, date, amount) ==
    [keys |-> keys, is_membership |-> is_membership, category |-> category,
     date |-> date, amount |-> amount]

C_GYM == <<"G","Y","M">>

PayPool ==
    {Payment(PaymentKeys, TRUE, C_NETFLIX, 0, 1000),
     Payment(PaymentKeys, TRUE, C_NETFLIX, 8, 1250),
     Payment(PaymentKeys, TRUE, C_NETFLIX, 30, 1000),
     Payment(PaymentKeys, TRUE, C_NETFLIX, 40, 999),
     Payment(PaymentKeys, TRUE, C_NETFLIX, 365, 1500),
     Payment(PaymentKeys, TRUE, C_GYM, 0, 2000),
     Payment(PaymentKeys, TRUE, C_GYM, 90, 2100),
     Payment(PaymentKeys, FALSE, C_NETFLIX, 15, 700),
     Payment(PaymentKeys \ {"is_membership"}, FALSE, C_GYM, 45, 500)}

InitAnalyze ==
    /\ payments_in \in ListsOver(PayPool, MaxPay)
    /\ pc = "analyze"
    /\ frequency_analysis = NoAnalysis
    /\ use_ai = FALSE
    /\ transactions = <<>>
    /\ i = 0
    /\ classified = <<>>
    /\ memberships_only = <<>>
    /\ requests = <<>>
    /\ responses = <<>>
    /\ after_pass = <<>>
    /\ argument = <<>>
    /\ TextIdle /\ StatementIdle /\ MailIdle

AnalyzeFrequency ==
    /\ pc = "analyze"
    /\ frequency_analysis' = analyze_frequency(payments_in)
    /\ pc' = "analyzed"
    /\ UNCHANGED <<use_ai, transactions, i, classified, memberships_only,
                   requests, responses, after_pass, payments_in>>
    /\ UNCHANGED <<argument, textVars, statementVars, mailVars>>

NextAnalyze == AnalyzeFrequency

SpecAnalyze == InitAnalyze /\ [][NextAnalyze]_vars

(***************************************************************************)
(* Properties of classify_transactions.                                    *)
(***************************************************************************)
Abs(x) == IF x < 0 THEN -x ELSE x

\* the four keys a classification sets
Classification(t) ==
    [is_membership |-> t.is_membership, membership_type |-> t.membership_type,
     frequency |-> t.frequency, category |-> t.category]

\* a transaction as its parser emitted it
Unclassified(t) == Parsed(t.date, t.description, t.merchant, t.amount)

\* the caller's list as it was passed
Passed == [k \in 1..Len(transactions) |-> Unclassified(transactions[k])]

ReturnedRefs == {memberships_only[n] : n \in 1..Len(memberships_only)}

\* the returned transactions that share the category of transaction k
Group(k) == {j \in ReturnedRefs : transactions[j].category = transactions[k].category}

RECURSIVE AmountsOf(_)
AmountsOf(refs) ==
    IF refs = {} THEN 0
    ELSE LET j == CHOOSE m \in refs : TRUE
         IN  transactions[j].amount + AmountsOf(refs \ {j})

\* the positions of the batch of request n
BatchOf(n) == (requests[n] + 1)..Min(requests[n] + batch_size, Len(transactions))

\* C1: every returned record has is_membership true, and a record that is not
\* membership-flagged after the one-time-payment filter is not returned.
C1_OnlyMemberships ==
    pc = "done" =>
        /\ \A n \in 1..Len(Returned) : Returned[n].is_membership
        /\ \A k \in 1..Len(transactions) :
               ~transactions[k].is_membership => k \notin ReturnedRefs

\* a run, model-assisted, that returns some records and drops one the pass
\* had flagged and the filter demoted
C1_Witness ==
    /\ pc = "done" /\ use_ai
    /\ Len(memberships_only) > 0
    /\ \E k \in 1..Len(transactions) :
           after_pass[k].is_membership /\ ~transactions[k].is_membership

\* C2: when exactly one record flagged by the rule/model pass carries a
\* category, no returned record carries that category.
C2_SingleCategoryAbsent ==
    pc = "done" =>
        \A k \in 1..Len(after_pass) :
            ( /\ after_pass[k].is_membership
              /\ Cardinality({j \in 1..Len(after_pass) :
                                 /\ after_pass[j].is_membership
                                 /\ after_pass[j].category = after_pass[k].category}) = 1 )
            => \A n \in 1..Len(Returned) :
                   Returned[n].category # after_pass[k].category

\* C3: every returned record has a membership_type, a frequency and a
\* category that are not None.
C3_NoNullLabels ==
    pc = "done" =>
        \A n \in 1..Len(Returned) :
            Returned[n].is_membership =>
                /\ Returned[n].membership_type # None
                /\ Returned[n].frequency # None
                /\ Returned[n].category # NoneCategory

\* C4 as stated: whenever the answer to a batch is text that is not JSON, the
\* batch is classified as _rule_based_classify classifies it.
C4_NonJsonIsRuleBased ==
    (use_ai /\ pc \in {"classify", "filter"}) =>
        \A n \in 1..Len(requests) :
            responses[n].kind \in {"text_array", "text_badarray", "text_plain"}
            => \A k \in BatchOf(n) :
                   Classification(transactions[k]) = classify_single(Passed[k])

\* C4 amended: whenever the answer to a batch is text that is not JSON and
\* from which no JSON array can be taken (no bracketed span, or a span that
\* does not parse), the batch is classified as _rule_based_classify
\* classifies it.
C4_NoArrayIsRuleBased ==
    (use_ai /\ pc \in {"classify", "filter"}) =>
        \A n \in 1..Len(requests) :
            responses[n].kind \in {"text_badarray", "text_plain"}
            => \A k \in BatchOf(n) :
                   Classification(transactions[k]) = classify_single(Passed[k])

\* a batch answered by text without an array, whose rule-based classification
\* flags a record
C4_Witness ==
    /\ use_ai /\ pc = "filter"
    /\ \E n \in 1..Len(requests) :
           /\ responses[n].kind \in {"text_badarray", "text_plain"}
           /\ \E k \in BatchOf(n) : transactions[k].is_membership

Nearest(x, num, den) == 2 * Abs(x * den - num) <= den

\* C6: the monthly_cost of a returned record is the mean amount of the
\* returned records of its category, divided by 12 for Yearly, multiplied by
\* 4.33 for Weekly, divided by 3 for Quarterly, by 6 for Bi-annual, unchanged
\* otherwise, rounded to the cent; the frequency is that of the first record
\* of the category.  Yearly with mean 120.00 gives 10.00, Weekly with mean
\* 10.00 gives 43.30.
C6_MonthlyCost ==
    pc = "done" =>
        \A k \in ReturnedRefs :
            LET first == CHOOSE j \in Group(k) : \A m \in Group(k) : j <= m
                frequency == transactions[first].frequency
                sum == AmountsOf(Group(k))
                len == Cardinality(Group(k))
                cost == transactions[k].monthly_cost
            IN  /\ frequency = "Yearly" => Nearest(cost, sum, len * 12)
                /\ frequency = "Weekly" => Nearest(cost, sum * 433, len * 100)
                /\ frequency = "Quarterly" => Nearest(cost, sum, len * 3)
                /\ frequency = "Bi-annual" => Nearest(cost, sum, len * 6)
                /\ frequency \notin {"Yearly", "Weekly", "Quarterly", "Bi-annual"}
                   => Nearest(cost, sum, len)
                /\ (frequency = "Yearly" /\ sum = 12000 * len) => cost = 1000
                /\ (frequency = "Weekly" /\ sum = 1000 * len) => cost = 4330

\* a returned Yearly category of mean 120.00 with monthly cost 10.00
C6_Witness ==
    /\ pc = "done"
    /\ \E k \in ReturnedRefs :
           /\ \A j \in Group(k) : transactions[j].frequency = "Yearly"
           /\ AmountsOf(Group(k)) = 12000 * Cardinality(Group(k))
           /\ transactions[k].monthly_cost = 1000

\* C7: every returned record carries monthly_cost and total_paid, total_paid
\* is the sum of the amounts of the returned records of its category, and
\* two returned records of one category agree on both.
C7_CategoryAggregates ==
    pc = "done" =>
        \A k \in ReturnedRefs :
            /\ transactions[k].costed
            /\ transactions[k].total_paid = AmountsOf(Group(k))
            /\ \A j \in Group(k) :
                   /\ transactions[j].monthly_cost = transactions[k].monthly_cost
                   /\ transactions[j].total_paid = transactions[k].total_paid

\* two returned records of one category with different amounts
C7_Witness ==
    /\ pc = "done"
    /\ \E k \in ReturnedRefs : \E j \in Group(k) :
           /\ transactions[j].amount # transactions[k].amount
           /\ transactions[k].total_paid =
                  transactions[j].amount + transactions[k].amount

NetflixThrice == AsTransactions(<<T_NETFLIX, T_NETFLIX, T_NETFLIX>>)

\* C8: rule-based, three NETFLIX transactions 30 days apart of 15.00 each are
\* all returned, as Streaming, Monthly, monthly_cost 15.00, total_paid 45.00.
C8_NetflixScenario ==
    (pc = "done" /\ ~use_ai /\ Passed = NetflixThrice) =>
        /\ memberships_only = <<1, 2, 3>>
        /\ \A n \in 1..Len(Returned) :
               /\ Returned[n].is_membership
               /\ Returned[n].membership_type = "Streaming"
               /\ Returned[n].frequency = "Monthly"
               /\ Returned[n].monthly_cost = 1500
               /\ Returned[n].total_paid = 4500

\* the scenario has run to its end
C8_Witness ==
    /\ pc = "done" /\ ~use_ai /\ Passed = NetflixThrice
    /\ Passed[2].date - Passed[1].date = 30
    /\ Len(Returned) = 3

(***************************************************************************)
(* Properties of analyze_frequency.                                        *)
(***************************************************************************)
\* the membership-flagged arguments of a category
FlaggedOf(category) ==
    {k \in 1..Len(payments_in) :
        /\ "is_membership" \in payments_in[k].keys
        /\ payments_in[k].is_membership
        /\ payments_in[k].category = category}

RECURSIVE PaidBy(_)
PaidBy(refs) ==
    IF refs = {} THEN 0
    ELSE LET j == CHOOSE m \in refs : TRUE
         IN  payments_in[j].amount + PaidBy(refs \ {j})

\* C9: the label of an average day-gap is Monthly for 25..35, Quarterly for
\* 85..95, Bi-annual for 175..185, Yearly for 360..370, Weekly for 7..9, and
\* otherwise "Every N days" with N the average rounded to the nearest integer.
C9_FrequencyBuckets ==
    pc = "analyzed" =>
        \A category \in DOMAIN frequency_analysis :
            LET entry == frequency_analysis[category]
                avg == entry.avg_interval_days
            IN  IF Between(25, avg, 35) THEN entry.frequency = "Monthly"
                ELSE IF Between(85, avg, 95) THEN entry.frequency = "Quarterly"
                ELSE IF Between(175, avg, 185) THEN entry.frequency = "Bi-annual"
                ELSE IF Between(360, avg, 370) THEN entry.frequency = "Yearly"
                ELSE IF Between(7, avg, 9) THEN entry.frequency = "Weekly"
                ELSE \E N \in 0..(avg.num + 1) :
                         /\ Nearest(N, avg.num, avg.den)
                         /\ entry.frequency = "Every " \o ToString(N) \o " days"

\* C10: an entry is returned only for a category with at least 2
\* membership-flagged records, and its count, total_amount and avg_amount
\* are the number, the sum and the mean of the amounts of those records.
C10_EntryStatistics ==
    pc = "analyzed" =>
        \A category \in DOMAIN frequency_analysis :
            LET entry == frequency_analysis[category]
                flagged == FlaggedOf(category)
            IN  /\ Cardinality(flagged) >= 2
                /\ entry.count = Cardinality(flagged)
                /\ entry.total_amount = PaidBy(flagged)
                /\ entry.avg_amount.num * Cardinality(flagged)
                       = PaidBy(flagged) * entry.avg_amount.den

\* an entry for a category of two flagged records, among arguments that
\* hold an unflagged record of that category and a category flagged once
C10_Witness ==
    /\ pc = "analyzed"
    /\ \E category \in DOMAIN frequency_analysis :
           /\ frequency_analysis[category].count = 2
           /\ \E k \in 1..Len(payments_in) :
                  /\ payments_in[k].category = category
                  /\ ~payments_in[k].is_membership
    /\ FlaggedOf(C_GYM) # {}
    /\ C_GYM \notin DOMAIN frequency_analysis

(***************************************************************************)
(* src/bank_parser.py: the two text conversions of the statement parser.   *)
(***************************************************************************)
\* first position at or after k whose character is in class cls
RECURSIVE SkipUntil(_, _, _)
SkipUntil(s, k, cls) ==
    IF k <= Len(s) /\ s[k] \notin cls THEN SkipUntil(s, k + 1, cls) ELSE k

\* str[:n]
Prefix(s, n) == SubSeq(s, 1, Min(n, Len(s)))

\* re.sub(r"\d{4,}", "", s), scanning from position k
RECURSIVE SubLongNumbers(_, _)
SubLongNumbers(s, k) ==
    IF k > Len(s) THEN <<>>
    ELSE IF s[k] \in Digits
    THEN LET e == SkipClass(s, k, Digits)
         IN  IF e - k >= 4 THEN SubLongNumbers(s, e)
             ELSE SubSeq(s, k, e - 1) \o SubLongNumbers(s, e)
    ELSE <<s[k]>> \o SubLongNumbers(s, k + 1)

\* re.sub(r"\s+", " ", s), scanning from position k
RECURSIVE SubSpaces(_, _)
SubSpaces(s, k) ==
    IF k > Len(s) THEN <<>>
    ELSE IF s[k] \in Whitespace
    THEN <<" ">> \o SubSpaces(s, SkipClass(s, k, Whitespace))
    ELSE <<s[k]>> \o SubSpaces(s, k + 1)

\* str.split(), scanning from position k
RECURSIVE Split(_, _)
Split(s, k) ==
    LET first == SkipClass(s, k, Whitespace)
        stop == SkipUntil(s, first, Whitespace)
    IN  IF first > Len(s) THEN <<>>
        ELSE <<SubSeq(s, first, stop - 1)>> \o Split(s, stop)

\* " ".join(words)
RECURSIVE Join(_)
Join(words) ==
    IF words = <<>> THEN <<>>
    ELSE IF Len(words) = 1 THEN words[1]
    ELSE words[1] \o <<" ">> \o Join(Tail(words))

\* _extract_merchant
extract_merchant(description) ==
    LET desc == Strip(SubSpaces(SubLongNumbers(Upper(description), 1), 1))
        words == Prefix(Split(desc, 1), 3)
    IN  IF words # <<>> THEN Join(words) ELSE Prefix(description, 30)

\* str.replace(old, ""), old a single character
Remove(s, old) == SelectSeq(s, LAMBDA c : c # old)

\* str.replace(old, new), both single characters
Replace(s, old, new) == [k \in 1..Len(s) |-> IF s[k] = old THEN new ELSE s[k]]

DigitChars == <<"0", "1", "2", "3", "4", "5", "6", "7", "8", "9">>
DigitValue(c) == (CHOOSE k \in 1..Len(DigitChars) : DigitChars[k] = c) - 1

\* the number a string of digits denotes
RECURSIVE Natural(_)
Natural(s) ==
    IF s = <<>> THEN 0
    ELSE 10 * Natural(SubSeq(s, 1, Len(s) - 1)) + DigitValue(s[Len(s)])

\* float(s) raises ValueError.  The strings used here are made of digits,
\* signs, points, blanks and currency signs, with at most two decimals: no
\* exponent, underscore, inf or nan.
FloatRaises(s) ==
    LET t == Strip(s)
        body == IF t # <<>> /\ t[1] \in {"-", "+"} THEN Tail(t) ELSE t
    IN  \/ \E k \in 1..Len(body) : body[k] \notin Digits \cup {"."}
        \/ Cardinality({k \in 1..Len(body) : body[k] = "."}) > 1
        \/ \A k \in 1..Len(body) : body[k] \notin Digits

\* float(s), in cents, of a string float accepts
Float(s) ==
    LET t == Strip(s)
        negative == t[1] = "-"
        body == IF t[1] \in {"-", "+"} THEN Tail(t) ELSE t
        point == SkipUntil(body, 1, {"."})
        whole == SubSeq(body, 1, point - 1)
        decimals == SubSeq(body, point + 1, Len(body))
        cents == 100 * Natural(whole)
                 + (IF Len(decimals) >= 1 THEN 10 * DigitValue(decimals[1]) ELSE 0)
                 + (IF Len(decimals) >= 2 THEN DigitValue(decimals[2]) ELSE 0)
    IN  IF negative THEN -cents ELSE cents

\* _parse_amount of a str, in cents
parse_amount(amount_str) ==
    LET cleaned == Strip(Remove(Remove(amount_str, "$"), ","))
    IN  IF FloatRaises(cleaned) THEN 0 ELSE Float(cleaned)

(***************************************************************************)
(* _extract_merchant and _parse_amount as functions of their argument:     *)
(* every short description over a letter, a digit and a blank, a few long  *)
(* ones, and amount strings as statements print them.                      *)
(***************************************************************************)
MaxDesc == 4       \* longest description explored exhaustively

DescAlphabet == {"a", "7", " "}

D_FOUR_WORDS == <<"N","e","t","f","l","i","x"," ","1","2","3","4","5"," ","P","a","r","i","s"," ","f","r"," ","2","0","2","4">>
D_CARD_NUMBER == <<"C","B"," ","4","9","7","4","1","2","3","4","1","2","3","4","1","2","3","4">>
\* only numbers and blanks, longer than the fallback keeps
D_NUMBERS == [k \in 1..26 |-> "7"] \o <<" ", "7", "7", "7", "7">>
D_BLANKS == [k \in 1..29 |-> " "] \o <<"1", "2", "3", "4", "5">>
D_LONG_NUMBER == [k \in 1..30 |-> "7"]

Descriptions ==
    ListsOver(DescAlphabet, MaxDesc)
        \cup {D_FOUR_WORDS, D_CARD_NUMBER, D_NUMBERS, D_BLANKS, D_LONG_NUMBER}

CurrencySigns == {"$", "€", "£"}
Wholes == {<<"0">>, <<"7">>, <<"1","2">>}
Decimals == {<<"5">>, <<"5","0">>, <<"9","9">>}

\* a currency sign and a number with a comma before its decimals
CommaAmounts ==
    {<<c>> \o blank \o whole \o <<",">> \o decimals :
        c \in CurrencySigns, blank \in {<<>>, <<" ">>},
        whole \in Wholes, decimals \in Decimals}
    \cup {whole \o <<",">> \o decimals \o blank \o <<c>> :
        c \in CurrencySigns, blank \in {<<>>, <<" ">>},
        whole \in Wholes, decimals \in Decimals}

A_PLAIN == <<"1","2",".","5","0">>
A_NEGATIVE == <<"-","1","2",".","5","0">>
A_THOUSANDS == <<"1",",","2","3","4",".","5","6">>
A_DOLLARS == <<"$","1","2",".","5","0">>
A_ZERO == <<"0">>
A_ZEROS == <<"0",".","0","0">>
A_EMPTY == <<>>
A_DASH == <<"-">>
A_PADDED == <<" ","7"," ">>
A_TWO_NUMBERS == <<"1"," ","2">>

AmountStrings ==
    CommaAmounts \cup {A_PLAIN, A_NEGATIVE, A_THOUSANDS, A_DOLLARS, A_ZERO,
                       A_ZEROS, A_EMPTY, A_DASH, A_PADDED, A_TWO_NUMBERS}

ClassifierIdle ==
    /\ use_ai = FALSE /\ transactions = <<>> /\ i = 0 /\ classified = <<>>
    /\ memberships_only = <<>> /\ requests = <<>> /\ responses = <<>>
    /\ after_pass = <<>> /\ payments_in = <<>>
    /\ frequency_analysis = NoAnalysis /\ argument = <<>>

InitText ==
    /\ \/ pc = "merchant" /\ str_arg \in Descriptions
       \/ pc = "amount" /\ str_arg \in AmountStrings
    /\ returns = <<>>
    /\ ClassifierIdle /\ StatementIdle /\ MailIdle

\* _extract_merchant(description), then _extract_merchant of what it returned
ExtractMerchant ==
    /\ pc = "merchant" /\ Len(returns) < 2
    /\ returns' = Append(returns,
                         extract_merchant(IF returns = <<>> THEN str_arg
                                          ELSE returns[Len(returns)]))
    /\ UNCHANGED <<classifierVars, str_arg, statementVars, mailVars>>

\* _parse_amount(amount_str)
ParseAmount ==
    /\ pc = "amount" /\ returns = <<>>
    /\ returns' = <<parse_amount(str_arg)>>
    /\ UNCHANGED <<classifierVars, str_arg, statementVars, mailVars>>

NextText == ExtractMerchant \/ ParseAmount

SpecText == InitText /\ [][NextText]_vars

(***************************************************************************)
(* Properties of the text conversions.                                     *)
(***************************************************************************)
\* C11: merchant normalisation is idempotent: for every description d,
\* _extract_merchant(_extract_merchant(d)) = _extract_merchant(d), also when
\* the result is the first 30 characters of the description.
C11_MerchantIdempotent ==
    (pc = "merchant" /\ Len(returns) = 2) => returns[2] = returns[1]

\* the amount a string denotes when its comma is read as the decimal point
CommaDecimal(amount_str) ==
    Float(Replace(SelectSeq(amount_str, LAMBDA c : c \notin CurrencySigns),
                  ",", "."))

\* C12: for every non-zero amount string made of a currency sign and a number
\* with a comma before its decimals, _parse_amount returns that number, the
\* comma read as decimal point.
C12_CommaDecimalAmount ==
    (pc = "amount" /\ returns # <<>> /\ str_arg \in CommaAmounts
        /\ CommaDecimal(str_arg) # 0)
        => returns[1] = CommaDecimal(str_arg)

(***************************************************************************)
(* src/bank_parser.py: the statement parser.  A transaction is a dict: a   *)
(* function whose domain is the set of keys that were set.  dateutil is    *)
(* modelled by the dates it reads from the date strings used here; a       *)
(* string it cannot read, and a missing date, give datetime.now().         *)
(***************************************************************************)
Today == 400       \* datetime.now(), as a day number

EmptyDict == [key \in {} |-> None]

\* d[key] = val
Put(d, key, val) == (key :> val) @@ d

LowerChar(c) ==
    IF \E k \in 1..Len(UpperLetters) : UpperLetters[k] = c
    THEN LowerLetters[CHOOSE k \in 1..Len(UpperLetters) : UpperLetters[k] = c]
    ELSE c

\* str.lower()
Lower(s) == [k \in 1..Len(s) |-> LowerChar(s[k])]

\* a cell that holds None
NoneCell == <<None>>

\* the truth value of a cell: None and "" are false
Truthy(cell) == cell # NoneCell /\ cell # <<>>

DS_ISO == <<"2","0","2","4","-","0","1","-","1","5">>
DS_SLASH == <<"1","5","/","0","1","/","2","0","2","4">>
DS_SLASH_FEB == <<"1","4","/","0","2","/","2","0","2","4">>
DS_ENGLISH == <<"1","5"," ","j","a","n","u","a","r","y","."," ","2","0","2","4">>
DS_NONE == <<"n","/","a">>

\* dateutil.parser.parse on the strings it can read
Calendar ==
    (DS_ISO :> 14) @@ (DS_SLASH :> 14) @@ (DS_SLASH_FEB :> 44)
        @@ (DS_ENGLISH :> 14)

\* _parse_date of a str
parse_date(date_str) ==
    IF date_str \in DOMAIN Calendar THEN Calendar[date_str] ELSE Today

K_date == <<"d","a","t","e">>
K_posted == <<"p","o","s","t","e","d">>
K_transaction == <<"t","r","a","n","s","a","c","t","i","o","n">>
K_description == <<"d","e","s","c","r","i","p","t","i","o","n">>
K_memo == <<"m","e","m","o">>
K_merchant == <<"m","e","r","c","h","a","n","t">>
K_details == <<"d","e","t","a","i","l","s">>
K_payee == <<"p","a","y","e","e">>
K_amount == <<"a","m","o","u","n","t">>
K_debit == <<"d","e","b","i","t">>
K_credit == <<"c","r","e","d","i","t">>

table_description_keywords == <<K_description, K_memo, K_merchant, K_details>>
amount_keywords == <<K_amount, K_debit, K_credit>>

\* the loop of lines 118-130 from column k on: the dict of one table row
RECURSIVE RowDict(_, _, _, _)
RowDict(headers, row, k, transaction) ==
    IF k > Len(headers) THEN transaction
    ELSE IF k <= Len(row) /\ Truthy(row[k])
    THEN LET header == headers[k]
             val == Strip(row[k])
         IN  RowDict(headers, row, k + 1,
                 IF Contains(header, K_date)
                 THEN Put(transaction, "date", parse_date(val))
                 ELSE IF AnyIn(table_description_keywords, header)
                 THEN Put(transaction, "description", val)
                 ELSE IF AnyIn(amount_keywords, header)
                 THEN Put(transaction, "amount", parse_amount(val))
                 ELSE transaction)
    ELSE RowDict(headers, row, k + 1, transaction)

\* dict.get(key, default)
GetKey(d, key, default) == IF key \in DOMAIN d THEN d[key] ELSE default

\* lines 113-136 for one row: the transactions it adds
TableRow(headers, row) ==
    IF Len(row) < 2 THEN <<>>
    ELSE LET transaction == RowDict(headers, row, 1, EmptyDict)
         IN  IF "description" \in DOMAIN transaction
                 /\ GetKey(transaction, "amount", 0) # 0
             THEN <<Put(transaction, "merchant",
                        extract_merchant(transaction["description"]))>>
             ELSE <<>>

RECURSIVE TableRows(_, _, _)
TableRows(headers, table, k) ==
    IF k > Len(table) THEN <<>>
    ELSE TableRow(headers, table[k]) \o TableRows(headers, table, k + 1)

\* _parse_table
parse_table(table) ==
    IF Len(table) < 2 THEN <<>>
    ELSE LET headers == [k \in 1..Len(table[1]) |->
                            IF Truthy(table[1][k]) THEN Lower(table[1][k])
                            ELSE <<>>]
         IN  TableRows(headers, table, 2)

(***************************************************************************)
(* _parse_text: the two patterns, the header keywords and the line loop.   *)
(***************************************************************************)
\* the month names of date_pattern
pattern_months ==
    <<<<"j","a","n","v">>,
      <<"f","é","v","r">>,
      <<"m","a","r","s">>,
      <<"a","v","r">>,
      <<"m","a","i">>,
      <<"j","u","i","n">>,
      <<"j","u","i","l">>,
      <<"a","o","û","t">>,
      <<"s","e","p","t">>,
      <<"o","c","t">>,
      <<"n","o","v">>,
      <<"d","é","c">>>>

\* month_map sorted by length, longest first (line 205)
sorted_months ==
    <<<<<<"j","a","n","v">>, <<"j","a","n","u","a","r","y">>>>,
      <<<<"f","é","v","r">>, <<"f","e","b","r","u","a","r","y">>>>,
      <<<<"m","a","r","s">>, <<"m","a","r","c","h">>>>,
      <<<<"j","u","i","n">>, <<"j","u","n","e">>>>,
      <<<<"j","u","i","l">>, <<"j","u","l","y">>>>,
      <<<<"a","o","û","t">>, <<"a","u","g","u","s","t">>>>,
      <<<<"s","e","p","t">>, <<"s","e","p","t","e","m","b","e","r">>>>,
      <<<<"f","é","v">>, <<"f","e","b","r","u","a","r","y">>>>,
      <<<<"a","v","r">>, <<"a","p","r","i","l">>>>,
      <<<<"m","a","i">>, <<"m","a","y">>>>,
      <<<<"o","c","t">>, <<"o","c","t","o","b","e","r">>>>,
      <<<<"n","o","v">>, <<"n","o","v","e","m","b","e","r">>>>,
      <<<<"d","é","c">>, <<"d","e","c","e","m","b","e","r">>>>>>

skip_keywords ==
    <<<<"R","e","l","e","v","é">>,
      <<"G","é","n","é","r","é"," ","l","e">>,
      <<"T","r","a","n","s","a","c","t","i","o","n","s"," ","d","u"," ","c","o","m","p","t","e">>,
      <<"D","a","t","e">>,
      <<"D","e","s","c","r","i","p","t","i","o","n">>,
      <<"A","r","g","e","n","t"," ","s","o","r","t","a","n","t">>,
      <<"A","r","g","e","n","t"," ","e","n","t","r","a","n","t">>,
      <<"S","o","l","d","e">>,
      <<"R","é","s","u","m","é">>,
      <<"C","O","M","P","T","E">>,
      <<"T","O","T","A","L">>,
      <<"R","e","n","v","o","y","é">>,
      <<"P","a","g","e">>>>

DotOrSpace == {"."} \cup Whitespace

\* how many digits, at most n, stand at position k
DigitRun(s, k, n) == Min(n, SkipClass(s, k, Digits) - k)

\* end of a match of \d{1,2}[.\s]+(janv|...)[.\s]+\d{2,4} starting at k, 0 when
\* none; re.IGNORECASE
FrenchDateEnd(s, k) ==
    LET p1 == k + DigitRun(s, k, 2)
        q1 == SkipClass(s, p1, DotOrSpace)
        named == {n \in 1..Len(pattern_months) :
                     /\ q1 + Len(pattern_months[n]) - 1 <= Len(s)
                     /\ Lower(SubSeq(s, q1, q1 + Len(pattern_months[n]) - 1))
                            = pattern_months[n]}
    IN  IF p1 = k \/ q1 = p1 \/ named = {} THEN 0
        ELSE LET p2 == q1 + Len(pattern_months[CHOOSE n \in named : TRUE])
                 q2 == SkipClass(s, p2, DotOrSpace)
             IN  IF q2 = p2 \/ DigitRun(s, q2, 4) < 2 THEN 0
                 ELSE q2 + DigitRun(s, q2, 4)

\* end of a match of \d{1,2}[/-]\d{1,2}[/-]\d{2,4} starting at k, 0 when none
NumericDateEnd(s, k) ==
    LET p1 == k + DigitRun(s, k, 2)
        p2 == p1 + 1 + DigitRun(s, p1 + 1, 2)
    IN  IF /\ p1 > k /\ p1 <= Len(s) /\ s[p1] \in {"/", "-"}
           /\ p2 > p1 + 1 /\ p2 <= Len(s) /\ s[p2] \in {"/", "-"}
           /\ DigitRun(s, p2 + 1, 4) >= 2
        THEN p2 + 1 + DigitRun(s, p2 + 1, 4)
        ELSE 0

DatePatternMatchEnd(s, k) ==
    IF FrenchDateEnd(s, k) # 0 THEN FrenchDateEnd(s, k) ELSE NumericDateEnd(s, k)

\* end of a match of €?\s*\d+[.,]\d+ starting at k, 0 when none
AmountPatternEnd(s, k) ==
    LET e == IF s[k] = "€" THEN k + 1 ELSE k
        w == SkipClass(s, e, Whitespace)
        d == SkipClass(s, w, Digits)
    IN  IF /\ d > w /\ d <= Len(s) /\ s[d] \in {".", ","}
           /\ SkipClass(s, d + 1, Digits) > d + 1
        THEN SkipClass(s, d + 1, Digits)
        ELSE 0

\* re.search: the leftmost match, <<>> when there is none; match_end[k] is
\* the end of the pattern's match starting at k, 0 when none
ReSearch(s, match_end) ==
    LET starts == {k \in 1..Len(s) : match_end[k] # 0}
    IN  IF starts = {} THEN <<>>
        ELSE LET k == CHOOSE m \in starts : \A n \in starts : m <= n
             IN  <<SubSeq(s, k, match_end[k] - 1)>>

\* str.replace(old, new), scanning from position k
RECURSIVE ReplaceAll(_, _, _, _)
ReplaceAll(s, old, new, k) ==
    IF k > Len(s) THEN <<>>
    ELSE IF k + Len(old) - 1 <= Len(s) /\ SubSeq(s, k, k + Len(old) - 1) = old
    THEN new \o ReplaceAll(s, old, new, k + Len(old))
    ELSE <<s[k]>> \o ReplaceAll(s, old, new, k + 1)

\* lines 205-213: the date a matched date string stands for
MatchedDate(date_str) ==
    LET lowered == Lower(date_str)
        french == {n \in 1..Len(sorted_months) :
                      Contains(lowered, sorted_months[n][1])}
    IN  IF french = {} THEN parse_date(date_str)
        ELSE LET n == CHOOSE m \in french : \A o \in french : m <= o
             IN  parse_date(ReplaceAll(lowered, sorted_months[n][1],
                                       sorted_months[n][2], 1))

\* line.split("€")[0]
BeforeEuro(s) == SubSeq(s, 1, SkipUntil(s, 1, {"€"}) - 1)

\* re.sub(r"\s+\d+[.,]\d+\s*$", "", s)
SubTrailingAmount(s) ==
    LET starts == {k \in 1..Len(s) :
                      LET w == SkipClass(s, k, Whitespace)
                          d == SkipClass(s, w, Digits)
                      IN  /\ w > k /\ d > w /\ d <= Len(s) /\ s[d] \in {".", ","}
                          /\ SkipClass(s, d + 1, Digits) > d + 1
                          /\ SkipClass(s, SkipClass(s, d + 1, Digits), Whitespace)
                                 = Len(s) + 1}
    IN  IF starts = {} THEN s
        ELSE SubSeq(s, 1, (CHOOSE m \in starts : \A n \in starts : m <= n) - 1)

\* lines 218-240 for one stripped line: the transactions it adds
TextLineTransactions(line, current_date) ==
    LET amount_match == ReSearch(line, [k \in 1..Len(line) |-> AmountPatternEnd(line, k)])
    IN  IF amount_match = <<>> \/ current_date = <<>> THEN <<>>
        ELSE LET amount_str == Strip(Replace(Remove(amount_match[1], "€"), ",", "."))
                 amount == Abs(Float(amount_str))
                 desc == Strip(SubTrailingAmount(
                             IF Contains(line, <<"€">>) THEN Strip(BeforeEuro(line))
                             ELSE line))
             IN  IF amount > 1
                 THEN <<Put(Put(Put(Put(EmptyDict, "date", current_date[1]),
                                    "description", desc),
                                "amount", amount),
                            "merchant", extract_merchant(desc))>>
                 ELSE <<>>

\* a scan that forgets the date at a line without one
TextLineDate_Forgets(line, current_date) ==
    LET date_match == ReSearch(line, [k \in 1..Len(line) |-> DatePatternMatchEnd(line, k)])
    IN  IF date_match = <<>> THEN <<>>
        ELSE <<MatchedDate(date_match[1])>>

\* lines 200-215: current_date after the line; <<>> is None
TextLineDate(line, current_date) ==
    LET date_match == ReSearch(line, [k \in 1..Len(line) |-> DatePatternMatchEnd(line, k)])
    IN  IF date_match = <<>> THEN current_date
        ELSE <<MatchedDate(date_match[1])>>

\* the loop of lines 190-240 from line k on
RECURSIVE TextLines(_, _, _)
TextLines(lines, k, current_date) ==
    IF k > Len(lines) THEN <<>>
    ELSE LET line == Strip(lines[k])
         IN  IF line = <<>> \/ AnyIn(skip_keywords, line)
             THEN TextLines(lines, k + 1, current_date)
             ELSE TextLineTransactions(line, TextLineDate(line, current_date))
                      \o TextLines(lines, k + 1, TextLineDate(line, current_date))

\* _parse_text of the lines of text.split("\n")
parse_text(lines) == TextLines(lines, 1, <<>>)

\* lines 20-31 for one page whose extract_text and extract_tables return
PageTransactions(page) ==
    LET RECURSIVE Tables(_)
        Tables(k) == IF k > Len(page.tables) THEN <<>>
                     ELSE parse_table(page.tables[k]) \o Tables(k + 1)
    IN  IF page.lines = <<>> THEN <<>>
        ELSE IF page.tables # <<>> THEN Tables(1)
        ELSE parse_text(page.lines)

date_column_keywords == <<K_date, K_posted, K_transaction>>
csv_description_keywords == <<K_description, K_memo, K_merchant, K_details, K_payee>>

\* [col for col in df.columns if any(keyword in col.lower() ...)], as positions
ColumnsWith(columns, keywords) ==
    SelectSeq([k \in 1..Len(columns) |-> k],
              LAMBDA k : AnyIn(keywords, Lower(columns[k])))

\* lines 74-93 for one row: the transactions it adds
CsvRow(columns, cells) ==
    LET date_cols == ColumnsWith(columns, date_column_keywords)
        desc_cols == ColumnsWith(columns, csv_description_keywords)
        amount_cols == ColumnsWith(columns, amount_keywords)
        date_str == IF date_cols # <<>> THEN cells[date_cols[1]] ELSE NoneCell
        description == IF desc_cols # <<>> THEN cells[desc_cols[1]] ELSE <<>>
        amount_str == IF amount_cols # <<>> THEN cells[amount_cols[1]] ELSE <<"0">>
        date == IF Truthy(date_str) THEN parse_date(date_str) ELSE Today
        amount == parse_amount(amount_str)
    IN  IF amount # 0
        THEN <<Put(Put(Put(Put(EmptyDict, "date", date),
                           "description", Strip(description)),
                       "amount", Abs(amount)),
                   "merchant", extract_merchant(description))>>
        ELSE <<>>

(***************************************************************************)
(* Documents.  A PDF is a list of pages, each with the lines of its text,  *)
(* its tables, and whether pdfplumber fails on it; a CSV is what read_csv  *)
(* gives: column names and rows of cells, a cell being the text str()      *)
(* gives for it (no amount cell is empty).                                 *)
(***************************************************************************)
MaxPages == 2      \* most pages of a PDF
MaxRows == 2       \* most rows of a CSV

Page(fault, lines, tables) == [fault |-> fault, lines |-> lines, tables |-> tables]

L_HEADER == <<"D","a","t","e"," ","D","e","s","c","r","i","p","t","i","o","n"," ","S","o","l","d","e">>
L_DATE == <<"1","5","/","0","1","/","2","0","2","4">>
L_NETFLIX == <<"N","E","T","F","L","I","X"," ","1","2",",","5","0"," ","€">>
L_SPOTIFY == <<"1","5"," ","j","a","n","v","."," ","2","0","2","4"," ","S","P","O","T","I","F","Y"," ","9",",","9","9">>
L_TOTAL == <<"T","O","T","A","L"," ","1","4","/","0","2","/","2","0","2","4"," ","9","9",",","0","0">>
L_FEE == <<"F","E","E"," ","0",",","0","1">>
L_BLANK == <<" "," ">>

TB_DATED ==
    <<<<<<"D","a","t","e">>, <<"D","e","s","c","r","i","p","t","i","o","n">>, <<"A","m","o","u","n","t">>>>,
      <<<<"2","0","2","4","-","0","1","-","1","5">>, <<"N","E","T","F","L","I","X">>, <<"1","2",".","5","0">>>>,
      <<DS_NONE, <<" ","S","P","O","T","I","F","Y"," ","1","2","3","4","5","6">>, <<"-","9",".","9","9">>>>,
      <<NoneCell, <<"G","Y","M">>, <<"0",".","0","0">>>>>>
TB_UNDATED ==
    <<<<<<"D","e","s","c","r","i","p","t","i","o","n">>, <<"A","m","o","u","n","t">>>>,
      <<<<"N","E","T","F","L","I","X">>, <<"-","1","2",".","5","0">>>>,
      <<<<"G","Y","M">>>>>>
TB_DEBIT_CREDIT ==
    <<<<<<"D","a","t","e">>, <<"D","e","t","a","i","l","s">>, <<"D","e","b","i","t">>, <<"C","r","e","d","i","t">>, NoneCell>>,
      <<<<"1","5","/","0","1","/","2","0","2","4">>, <<"A","D","O","B","E">>, <<"2","0",".","0","0">>, NoneCell, <<"x">>>>,
      <<<<"1","5","/","0","1","/","2","0","2","4">>, <<"R","E","F","U","N","D">>, <<"2","0",".","0","0">>, <<"-","5",".","0","0">>, <<"x">>>>>>
TB_HEADERS_ONLY ==
    <<<<<<"D","a","t","e">>, <<"D","e","s","c","r","i","p","t","i","o","n">>, <<"A","m","o","u","n","t">>>>>>

Pages ==
    {Page(TRUE, <<>>, <<>>),
     Page(FALSE, <<>>, <<TB_DATED>>),
     Page(FALSE, <<L_HEADER>>, <<TB_DATED>>),
     Page(FALSE, <<L_HEADER>>, <<TB_UNDATED, TB_HEADERS_ONLY>>),
     Page(FALSE, <<L_HEADER>>, <<TB_DEBIT_CREDIT>>),
     Page(FALSE, <<L_NETFLIX, L_HEADER, L_DATE, L_NETFLIX, L_BLANK, L_TOTAL, L_FEE>>, <<>>),
     Page(FALSE, <<L_SPOTIFY, L_NETFLIX>>, <<>>)}

COLS_FULL == <<<<"P","o","s","t","e","d"," ","D","a","t","e">>, <<"P","a","y","e","e">>, <<"A","m","o","u","n","t">>, <<"B","a","l","a","n","c","e">>>>
COLS_NO_DATE == <<<<"R","e","f">>, <<"M","e","m","o">>, <<"D","e","b","i","t">>, <<"B","a","l","a","n","c","e">>>>
COLS_NONE == <<<<"R","e","f">>, <<"N","o","t","e">>, <<"V","a","l","u","e">>, <<"B","a","l","a","n","c","e">>>>

Columns == {COLS_FULL, COLS_NO_DATE, COLS_NONE}

CsvRows ==
    {<<<<"2","0","2","4","-","0","1","-","1","5">>, <<"N","E","T","F","L","I","X"," ","1","2","3","4","5">>, <<"-","1","2",".","5">>, <<"1","0","0">>>>,
     <<<<"n","a","n">>, <<" ","G","y","m"," ">>, <<"$","1",",","2","3","4",".","5","6">>, <<"0">>>>,
     <<<<"1","5","/","0","1","/","2","0","2","4">>, <<"S","H","O","P">>, <<"0",".","0">>, <<"7">>>>,
     <<DS_NONE, <<"n","a","n">>, <<"€"," ","1","2",",","5","0">>, <<"7">>>>}

Pdf(readable, pages) == [format |-> "pdf", readable |-> readable, pages |-> pages]
Csv(readable, columns, rows) ==
    [format |-> "csv", readable |-> readable, columns |-> columns, rows |-> rows]

Documents ==
    {Pdf(readable, pages) : readable \in BOOLEAN, pages \in ListsOver(Pages, MaxPages)}
    \cup {Csv(readable, columns, rows) :
             readable \in BOOLEAN, columns \in Columns,
             rows \in ListsOver(CsvRows, MaxRows)}

InitStatement ==
    /\ document \in Documents
    /\ pc = "open"
    /\ item = 0
    /\ emitted = <<>>
    /\ running_date = <<>> /\ line_of = <<>>
    /\ ClassifierIdle /\ TextIdle /\ MailIdle

\* parse_pdf, line 18: pdfplumber.open; its exception is not caught
OpenPdf ==
    /\ pc = "open" /\ document.format = "pdf"
    /\ pc' = IF document.readable THEN "pages" ELSE "raised"
    /\ UNCHANGED <<document, item, emitted>>
    /\ UNCHANGED <<running_date, line_of, callVars, textVars, mailVars>>

\* parse_pdf, lines 19-31: one page; an exception of extract_text or
\* extract_tables is not caught
ParsePage ==
    /\ pc = "pages" /\ item < Len(document.pages)
    /\ LET page == document.pages[item + 1]
       IN  \/ /\ page.fault
              /\ pc' = "raised"
              /\ UNCHANGED <<item, emitted>>
           \/ /\ ~page.fault
              /\ emitted' = emitted \o PageTransactions(page)
              /\ item' = item + 1
              /\ pc' = pc
    /\ UNCHANGED document
    /\ UNCHANGED <<running_date, line_of, callVars, textVars, mailVars>>

\* parse_pdf, line 33
ReturnPdf ==
    /\ pc = "pages" /\ item = Len(document.pages)
    /\ pc' = "returned"
    /\ UNCHANGED <<document, item, emitted>>
    /\ UNCHANGED <<running_date, line_of, callVars, textVars, mailVars>>

\* parse_csv, lines 39-71 and 97-98: read_csv; its exception is caught
ReadCsv ==
    /\ pc = "open" /\ document.format = "csv"
    /\ pc' = IF document.readable THEN "rows" ELSE "returned"
    /\ UNCHANGED <<document, item, emitted>>
    /\ UNCHANGED <<running_date, line_of, callVars, textVars, mailVars>>

\* parse_csv, lines 73-95: one row
ParseRow ==
    /\ pc = "rows" /\ item < Len(document.rows)
    /\ emitted' = emitted \o CsvRow(document.columns, document.rows[item + 1])
    /\ item' = item + 1
    /\ UNCHANGED <<pc, document>>
    /\ UNCHANGED <<running_date, line_of, callVars, textVars, mailVars>>

\* parse_csv, line 100
ReturnCsv ==
    /\ pc = "rows" /\ item = Len(document.rows)
    /\ pc' = "returned"
    /\ UNCHANGED <<document, item, emitted>>
    /\ UNCHANGED <<running_date, line_of, callVars, textVars, mailVars>>

NextStatement ==
    \/ OpenPdf
    \/ ParsePage
    \/ ReturnPdf
    \/ ReadCsv
    \/ ParseRow
    \/ ReturnCsv

SpecStatement == InitStatement /\ [][NextStatement]_vars

(***************************************************************************)
(* Properties of the statement parser.                                     *)
(***************************************************************************)
\* C13: every transaction a parser path emits has a date, a point in time
\* (now when no date could be read); none lacks the key or holds a null.
C13_DateNeverNull ==
    \A n \in 1..Len(emitted) :
        "date" \in DOMAIN emitted[n] /\ emitted[n]["date"] \in Nat

\* C14: every transaction a parser path emits has an amount above zero: a
\* negative source amount is emitted as its magnitude, a zero one is not
\* emitted.
C14_AmountPositive ==
    \A n \in 1..Len(emitted) :
        "amount" \in DOMAIN emitted[n] /\ emitted[n]["amount"] > 0

\* the transactions of the pages pdfplumber reads without failing
RECURSIVE ReadablePages(_, _)
ReadablePages(pages, k) ==
    IF k > Len(pages) THEN <<>>
    ELSE (IF pages[k].fault THEN <<>> ELSE PageTransactions(pages[k]))
             \o ReadablePages(pages, k + 1)

\* C18: no failure raises out of parse_pdf or parse_csv: a file that cannot
\* be opened or read makes them return, and a failure on one page, row or
\* line skips that item only, the rest of the document being parsed.
C18_NoFaultEscapes ==
    /\ pc # "raised"
    /\ (pc = "returned" /\ document.format = "pdf" /\ document.readable)
           => emitted = ReadablePages(document.pages, 1)

(***************************************************************************)
(* src/email_parser.py: parse_emails_from_imap.  The server is given by    *)
(* the messages search lists (oldest first), by what fetching and parsing  *)
(* each of them does, and by the command, if any, that fails.  imaplib     *)
(* keeps the state of the connection: search, fetch and close are legal in *)
(* state SELECTED only, and close leaves the connection in state AUTH.     *)
(***************************************************************************)
MaxMail == 3       \* most messages of a mailbox
MaxLimit == 2      \* largest limit

\* a transaction of _parse_email_message (lines 141-148)
EmailTransaction(merchant, subject, amount) ==
    Put(Put(Put(Put(EmptyDict, "date", Today),
                "description", merchant \o <<" ", "-", " ">> \o subject),
            "amount", amount),
        "merchant", merchant)

\* a message: how imap.fetch of it ends ("OK", another status, an exception
\* of fetch or of the parsing) and what _parse_email_message returns for it
Message(fetch, parsed) == [fetch |-> fetch, parsed |-> parsed]

M_NETFLIX ==
    Message("OK", <<EmailTransaction(<<"Y","O","U","R"," ","R","E","C","E","I","P","T"," ","N","E","T","F","L","I","X">>,
                                   <<"Y","o","u","r"," ","r","e","c","e","i","p","t">>, 1599)>>)
M_RECEIPTS ==
    Message("OK", <<EmailTransaction(<<"S","P","O","T","I","F","Y">>, <<"R","e","c","e","i","p","t","s">>, 999),
                    EmailTransaction(<<"S","P","O","T","I","F","Y">>, <<"R","e","c","e","i","p","t","s">>, 2000)>>)
M_NO == Message("NO", <<>>)
M_RAISES == Message("raises", <<>>)

Messages == {M_NETFLIX, M_RECEIPTS, M_NO, M_RAISES}

\* what goes wrong with the mailbox: nothing, no credentials configured, the
\* connection refused, the login refused, select raising, select answering
\* NO, search raising, search answering NO, close raising
Failures == {"none", "credentials", "connect", "login", "select", "select_no",
             "search", "search_no", "close"}

Mailbox(failure, messages, limit) ==
    [failure |-> failure, messages |-> messages, limit |-> limit]

Mailboxes ==
    {Mailbox(failure, messages, limit) :
        failure \in Failures, messages \in ListsOver(Messages, MaxMail),
        limit \in 0..MaxLimit}

\* messages[0].split()[-limit:], as positions in the list of search
email_ids(messages, limit) ==
    IF limit = 0 \/ limit >= Len(messages) THEN [k \in 1..Len(messages) |-> k]
    ELSE [k \in 1..limit |-> Len(messages) - limit + k]

\* reversed(s)
Reversed(s) == [k \in 1..Len(s) |-> s[Len(s) + 1 - k]]

InitMail ==
    /\ mailbox \in Mailboxes
    /\ imap = None
    /\ fetched = <<>>
    /\ found = <<>>
    /\ pc = "call"
    /\ ClassifierIdle /\ TextIdle /\ StatementIdle

\* lines 44-46 and connect (lines 17-35)
Connect ==
    /\ pc = "call" /\ imap = None
    /\ \/ /\ mailbox.failure = "credentials"
          /\ pc' = "raised" /\ imap' = imap
       \/ /\ mailbox.failure = "connect"
          /\ pc' = "returned" /\ imap' = imap
       \/ /\ mailbox.failure = "login"
          /\ pc' = "returned" /\ imap' = "NONAUTH"
       \/ /\ mailbox.failure \notin {"credentials", "connect", "login"}
          /\ pc' = "select" /\ imap' = "AUTH"
    /\ UNCHANGED <<mailbox, fetched, found>>
    /\ UNCHANGED <<callVars, textVars, statementVars>>

\* line 51
Select ==
    /\ pc = "select"
    /\ \/ /\ mailbox.failure = "select"
          /\ pc' = "close" /\ imap' = imap
       \/ /\ mailbox.failure = "select_no"
          /\ pc' = "search" /\ imap' = "AUTH"
       \/ /\ mailbox.failure \notin {"select", "select_no"}
          /\ pc' = "search" /\ imap' = "SELECTED"
    /\ UNCHANGED <<mailbox, fetched, found>>
    /\ UNCHANGED <<callVars, textVars, statementVars>>

\* lines 58-63
Search ==
    /\ pc = "search"
    /\ pc' = IF imap = "SELECTED" /\ mailbox.failure \notin {"search", "search_no"}
             THEN "fetch" ELSE "close"
    /\ UNCHANGED <<mailbox, imap, fetched, found>>
    /\ UNCHANGED <<callVars, textVars, statementVars>>

\* one turn of the loop of lines 65-74
Fetch ==
    /\ pc = "fetch"
    /\ Len(fetched) < Len(email_ids(mailbox.messages, mailbox.limit))
    /\ LET email_id == Reversed(email_ids(mailbox.messages, mailbox.limit))
                           [Len(fetched) + 1]
           message == mailbox.messages[email_id]
       IN  /\ fetched' = Append(fetched, email_id)
           /\ found' = IF message.fetch = "OK" THEN found \o message.parsed
                       ELSE found
           /\ pc' = IF message.fetch = "raises" THEN "close" ELSE pc
    /\ UNCHANGED <<mailbox, imap>>
    /\ UNCHANGED <<callVars, textVars, statementVars>>

\* the loop of line 65 ends
EndFetch ==
    /\ pc = "fetch"
    /\ Len(fetched) = Len(email_ids(mailbox.messages, mailbox.limit))
    /\ pc' = "close"
    /\ UNCHANGED <<mailbox, imap, fetched, found>>
    /\ UNCHANGED <<callVars, textVars, statementVars>>

\* lines 76-82: the handler, then imap.close() in the finally clause, whose
\* exception is not caught, then the return
Close ==
    /\ pc = "close"
    /\ imap' = "AUTH"
    /\ pc' = IF imap = "SELECTED" /\ mailbox.failure # "close"
             THEN "returned" ELSE "raised"
    /\ UNCHANGED <<mailbox, fetched, found>>
    /\ UNCHANGED <<callVars, textVars, statementVars>>

NextMail ==
    \/ Connect
    \/ Select
    \/ Search
    \/ Fetch
    \/ EndFetch
    \/ Close

SpecMail == InitMail /\ [][NextMail]_vars

(***************************************************************************)
(* Properties of parse_emails_from_imap.                                   *)
(***************************************************************************)
\* what the messages at the positions ids hold, in that order
RECURSIVE TransactionsOf(_, _)
TransactionsOf(messages, ids) ==
    IF ids = <<>> THEN <<>>
    ELSE (IF messages[Head(ids)].fetch = "OK" THEN messages[Head(ids)].parsed
          ELSE <<>>) \o TransactionsOf(messages, Tail(ids))

\* C15: a failure while fetching or parsing one message does not abort the
\* batch: every other selected message is still fetched and parsed, and its
\* transactions are in the result.
C15_MessageFailureSkipsOne ==
    (pc = "returned" /\ mailbox.failure = "none")
        => /\ fetched = Reversed(email_ids(mailbox.messages, mailbox.limit))
           /\ found = TransactionsOf(mailbox.messages, fetched)

\* the last n elements of s
LastN(s, n) == SubSeq(s, Len(s) - Min(n, Len(s)) + 1, Len(s))

\* C16: for every limit >= 0 and every mailbox, at most limit messages are
\* fetched, they are the last limit ids search returned, and they are fetched
\* newest first.
C16_LimitNewestFirst ==
    LET wanted == Reversed(LastN([k \in 1..Len(mailbox.messages) |-> k],
                                 mailbox.limit))
    IN  /\ Len(fetched) <= mailbox.limit
        /\ Len(fetched) <= Len(wanted)
        /\ fetched = SubSeq(wanted, 1, Len(fetched))

\* C17: with credentials configured, any mailbox failure (connect fails,
\* select, search or close raises, search answers another status than OK)
\* ends in an empty list being returned, no exception reaching the caller.
C17_MailboxFailureIsEmpty ==
    mailbox.failure \in {"connect", "login", "select", "search", "search_no",
                         "close"}
        => /\ pc # "raised"
           /\ pc = "returned" => found = <<>>

(***************************************************************************)
(* Further properties of classify_transactions.                            *)
(***************************************************************************)
\* C19: classify_transactions (rule or model pass, one-time-payment filter,
\* projection, cost estimation) never changes the amount, date or merchant of
\* a record, returned or not: they are what they were when the list was passed.
C19_AmountDateMerchantKept ==
    /\ Len(transactions) = Len(argument)
    /\ \A k \in 1..Len(argument) :
           /\ transactions[k].amount = argument[k].amount
           /\ transactions[k].date = argument[k].date
           /\ transactions[k].merchant = argument[k].merchant

\* a model-assisted run that has finished: a returned record carries its
\* costs and a category the service chose, another record was not returned
C19_Witness ==
    /\ pc = "done" /\ use_ai
    /\ \E n \in 1..Len(Returned) :
           /\ Returned[n].costed
           /\ Returned[n].category # Returned[n].merchant
           /\ Returned[n].frequency = "Quarterly"
    /\ \E k \in 1..Len(transactions) : k \notin ReturnedRefs

\* C20: model-assisted, n transactions: the input is cut into consecutive
\* batches of 20 (the last may be shorter), one request is issued per batch,
\* in input order, the request of a batch only once the batch before it has
\* its answer or its fallback, none is issued twice, and ceil(n / 20)
\* requests are made in all.
C20_OneRequestPerBatch ==
    use_ai =>
        /\ Len(responses) = Len(requests)
        /\ \A n \in 1..Len(requests) :
               /\ requests[n] = batch_size * (n - 1)
               /\ Len(classified) >= Min(batch_size * n, Len(argument))
        /\ pc # "classify" =>
               Len(requests) = (Len(argument) + batch_size - 1) \div batch_size

(***************************************************************************)
(* _parse_text (bank_parser.py:142-242), one line of the loop of lines     *)
(* 190-240 at a time.                                                      *)
(***************************************************************************)
MaxLines == 4      \* most lines of a text

L_FEB_GYM == <<"1","4","/","0","2","/","2","0","2","4"," ","G","Y","M"," ","3","0",",","0","0">>

TextLineChoices == {L_NETFLIX, L_DATE, L_TOTAL, L_FEB_GYM}

Texts == ListsOver(TextLineChoices, MaxLines)

\* lines 144-145 and 189
InitLines ==
    /\ document \in Texts
    /\ pc = "lines"
    /\ item = 0
    /\ emitted = <<>>
    /\ running_date = <<>>
    /\ line_of = <<>>
    /\ ClassifierIdle /\ TextIdle /\ MailIdle

\* lines 190-240: one line
ParseLine ==
    /\ pc = "lines" /\ item < Len(document)
    /\ LET line == Strip(document[item + 1])
       IN  IF line = <<>> \/ AnyIn(skip_keywords, line)
           THEN UNCHANGED <<running_date, emitted, line_of>>
           ELSE LET date == TextLineDate(line, running_date)
                    new == TextLineTransactions(line, date)
                IN  /\ running_date' = date
                    /\ emitted' = emitted \o new
                    /\ line_of' = line_of \o [n \in 1..Len(new) |-> item + 1]
    /\ item' = item + 1
    /\ UNCHANGED <<pc, document>>
    /\ UNCHANGED <<callVars, textVars, mailVars>>

\* line 242
ReturnLines ==
    /\ pc = "lines" /\ item = Len(document)
    /\ pc' = "returned"
    /\ UNCHANGED <<statementVars, callVars, textVars, mailVars>>

NextLines ==
    \/ ParseLine
    \/ ReturnLines

SpecLines == InitLines /\ [][NextLines]_vars

\* a line that holds a skip keyword
Skipped(line) == AnyIn(skip_keywords, line)

\* the date string the date pattern finds in a line, <<>> when none
DateIn(line) ==
    LET stripped == Strip(line)
    IN  ReSearch(stripped,
                 [k \in 1..Len(stripped) |-> DatePatternMatchEnd(stripped, k)])

\* the lines up to line k that are not skipped and match a date pattern
DateLines(k) == {j \in 1..k : ~Skipped(document[j]) /\ DateIn(document[j]) # <<>>}

\* the date of the last of them, <<>> when there is none
DateAt(k) ==
    LET dated == DateLines(k)
    IN  IF dated = {} THEN <<>>
        ELSE LET j == CHOOSE m \in dated : \A n \in dated : n <= m
             IN  <<MatchedDate(DateIn(document[j])[1])>>

\* C21: _parse_text, lines scanned in order: no transaction comes from a line
\* before the first non-skipped line that matches a date pattern; every
\* transaction carries the date of the most recent non-skipped date line at
\* or before its own line; a line with a skip keyword neither updates the
\* current date nor emits a transaction.
C21_RunningDate ==
    /\ running_date = DateAt(item)
    /\ Len(line_of) = Len(emitted)
    /\ \A n \in 1..Len(emitted) :
           LET date == DateAt(line_of[n])
           IN  /\ ~Skipped(document[line_of[n]])
               /\ date # <<>>
               /\ emitted[n]["date"] = date[1]

\* a text whose first line holds an amount and gave nothing, and a later line
\* gave a transaction with the date of a line before a skipped dated line
C21_Witness ==
    /\ pc = "returned"
    /\ Len(document) >= 1 /\ document[1] = L_NETFLIX
    /\ \A n \in 1..Len(line_of) : line_of[n] # 1
    /\ \E n \in 1..Len(emitted) :
           \E j \in 1..line_of[n] :
               /\ Skipped(document[j]) /\ DateIn(document[j]) # <<>>
               /\ \E d \in DateLines(j) :
                      /\ DateLines(line_of[n]) \subseteq 1..d
                      /\ emitted[n]["date"] = MatchedDate(DateIn(document[d])[1])
                      /\ emitted[n]["date"] # MatchedDate(DateIn(document[j])[1])

(***************************************************************************)
(* src/email_parser.py: _parse_email_message, lines 113-170, as a function *)
(* of the subject and the body; amounts in cents.  The patterns are        *)
(* matched on the lowered text: re.IGNORECASE, and lowering changes no     *)
(* digit, sign or blank.                                                   *)
(***************************************************************************)
\* end of a match of \d+[.,]?\d* starting at k, 0 when none
NumberEnd(s, k) ==
    LET d == SkipClass(s, k, Digits)
        p == IF d <= Len(s) /\ s[d] \in {".", ","} THEN d + 1 ELSE d
    IN  IF d = k THEN 0 ELSE SkipClass(s, p, Digits)

\* end of a match, starting at k, of words each followed by one or more
\* characters of sep; words[n] lists the alternatives of word n; 0 when none
RECURSIVE PhraseEnd(_, _, _, _)
PhraseEnd(s, k, words, sep) ==
    IF words = <<>> THEN k
    ELSE LET after(n) == SkipClass(s, k + Len(words[1][n]), sep)
             fits == {n \in 1..Len(words[1]) :
                         /\ k + Len(words[1][n]) - 1 <= Len(s)
                         /\ SubSeq(s, k, k + Len(words[1][n]) - 1) = words[1][n]
                         /\ after(n) > k + Len(words[1][n])
                         /\ PhraseEnd(s, after(n), Tail(words), sep) # 0}
         IN  IF fits = {} THEN 0
             ELSE PhraseEnd(s, after(CHOOSE n \in fits : \A m \in fits : n <= m),
                            Tail(words), sep)

\* charge_patterns[p] (lines 117-122) at k: <<start of group 1, its end, end
\* of the match>>, ends exclusive; <<>> when it does not match there
ChargeMatch(p, s, k) ==
    LET W_charged == <<"c","h","a","r","g","e","d">>
        W_payment == <<"p","a","y","m","e","n","t">>
        W_of == <<"o","f">>
        W_amount == <<"a","m","o","u","n","t">>
        W_was == <<"w","a","s">>
        W_has_been == <<"h","a","s"," ","b","e","e","n">>
    IN
    IF p = 3
    THEN LET n == IF s[k] \in CurrencySigns THEN NumberEnd(s, k + 1) ELSE 0
             w == SkipClass(s, n, Whitespace)
             word == IF n = 0 \/ w = n THEN <<>>
                     ELSE IF SubSeq(s, w, Min(Len(s), w + Len(W_was) - 1)) = W_was
                     THEN W_was
                     ELSE IF SubSeq(s, w, Min(Len(s), w + Len(W_has_been) - 1))
                                 = W_has_been
                     THEN W_has_been
                     ELSE <<>>
         IN  IF word = <<>> THEN <<>> ELSE <<k + 1, n, w + Len(word)>>
    ELSE LET e == CASE p = 1 -> PhraseEnd(s, k, <<<<W_charged>>>>, Whitespace)
                    [] p = 2 -> PhraseEnd(s, k, <<<<W_payment>>, <<W_of>>>>, Whitespace)
                    [] p = 4 -> PhraseEnd(s, k, <<<<W_amount>>>>, Whitespace \cup {":"})
             g == IF e # 0 /\ e <= Len(s) /\ s[e] \in CurrencySigns THEN e + 1 ELSE e
             n == IF e = 0 THEN 0 ELSE NumberEnd(s, g)
         IN  IF n = 0 THEN <<>> ELSE <<g, n, n>>

\* lines 126-133 for one pattern: float(match.group(1).replace(",", "")) of
\* each match of re.finditer from k on
RECURSIVE FindAmounts(_, _, _)
FindAmounts(p, s, k) ==
    IF k > Len(s) THEN <<>>
    ELSE LET m == ChargeMatch(p, s, k)
         IN  IF m = <<>> THEN FindAmounts(p, s, k + 1)
             ELSE <<Float(Remove(SubSeq(s, m[1], m[2] - 1), ","))>>
                      \o FindAmounts(p, s, m[3])

\* lines 124-133: the amounts above 0.01 of the four patterns, in their order
amounts_found(s) ==
    LET RECURSIVE OfPatterns(_)
        OfPatterns(p) ==
            IF p > 4 THEN <<>>
            ELSE SelectSeq(FindAmounts(p, s, 1), LAMBDA amount : amount > 1)
                     \o OfPatterns(p + 1)
    IN  OfPatterns(1)

\* amount_pattern (line 99), [\$£€]?\s*(\d+[.,]?\d*), at k: <<start of group 1,
\* its end>>, <<>> when it does not match there
LooseMatch(s, k) ==
    LET w == SkipClass(s, IF s[k] \in CurrencySigns THEN k + 1 ELSE k, Whitespace)
        n == NumberEnd(s, w)
    IN  IF n = 0 THEN <<>> ELSE <<w, n>>

\* a fallback that keeps every match in the range
RECURSIVE fallback_amounts_NoBreak(_, _)
fallback_amounts_NoBreak(s, k) ==
    IF k > Len(s) THEN <<>>
    ELSE LET m == LooseMatch(s, k)
             amount == Float(Remove(SubSeq(s, m[1], m[2] - 1), ","))
         IN  IF m = <<>> THEN fallback_amounts_NoBreak(s, k + 1)
             ELSE IF 100 <= amount /\ amount <= 1000000
             THEN <<amount>> \o fallback_amounts_NoBreak(s, m[2])
             ELSE fallback_amounts_NoBreak(s, m[2])

\* lines 153-168: the amounts the loop over the matches of amount_pattern
\* appends from k on: the first one in 1.0..10000.0, then break
RECURSIVE fallback_amounts(_, _)
fallback_amounts(s, k) ==
    IF k > Len(s) THEN <<>>
    ELSE LET m == LooseMatch(s, k)
             amount == Float(Remove(SubSeq(s, m[1], m[2] - 1), ","))
         IN  IF m = <<>> THEN fallback_amounts(s, k + 1)
             ELSE IF 100 <= amount /\ amount <= 1000000 THEN <<amount>>
             ELSE fallback_amounts(s, m[2])

\* re.sub of a pattern of words, each followed by \s+, by "", from k on
RECURSIVE SubPhrase(_, _, _)
SubPhrase(s, k, words) ==
    IF k > Len(s) THEN <<>>
    ELSE IF PhraseEnd(s, k, words, Whitespace) # 0
    THEN SubPhrase(s, PhraseEnd(s, k, words, Whitespace), words)
    ELSE <<s[k]>> \o SubPhrase(s, k + 1, words)

\* patterns_to_remove (lines 232-236)
patterns_to_remove ==
    LET RECEIPT == <<"R","E","C","E","I","P","T">>
        FROM == <<"F","R","O","M">>
        PAYMENT == <<"P","A","Y","M","E","N","T">>
        CONFIRMATION == <<"C","O","N","F","I","R","M","A","T","I","O","N">>
        CHARGE == <<"C","H","A","R","G","E">>
        AT == <<"A","T">>
    IN  << << <<RECEIPT>>, <<FROM>> >>,
           << <<PAYMENT>>, <<RECEIPT, CONFIRMATION>>, <<FROM>> >>,
           << <<CHARGE>>, <<FROM, AT>> >> >>

\* _extract_merchant_from_email
extract_merchant_from_email(subject, body) ==
    LET text == Upper(subject \o <<" ">> \o body)
        cleaned == SubPhrase(SubPhrase(SubPhrase(text, 1, patterns_to_remove[1]),
                                       1, patterns_to_remove[2]),
                             1, patterns_to_remove[3])
        words == Prefix(Split(cleaned, 1), 3)
    IN  IF words # <<>> THEN Join(words) ELSE Prefix(subject, 30)

\* lines 113-170 of _parse_email_message
parse_email_message(subject, body) ==
    LET text_to_parse == Lower(subject \o <<"\n">> \o body)
        amounts == amounts_found(text_to_parse)
        merchant == extract_merchant_from_email(subject, body)
        loose == fallback_amounts(text_to_parse, 1)
    IN  IF amounts # <<>>
        THEN [n \in 1..Len(amounts) |-> EmailTransaction(merchant, subject, amounts[n])]
        ELSE IF merchant # <<>>
        THEN [n \in 1..Len(loose) |-> EmailTransaction(merchant, subject, loose[n])]
        ELSE <<>>

(***************************************************************************)
(* Messages: a subject, and a body made of a few sentences.                *)
(***************************************************************************)
MaxSentences == 2  \* most sentences of a body

F_CHARGED == <<"c","h","a","r","g","e","d"," ","$","1","2",".","5","0"," ">>
F_PAYMENT_WAS == <<"P","a","y","m","e","n","t"," ","o","f"," ","€","5"," ","w","a","s"," ","m","a","d","e"," ">>
F_AMOUNT_CENT == <<"a","m","o","u","n","t",":"," ","0",".","0","1"," ">>
F_TOTAL == <<"t","o","t","a","l"," ","1","5",",","0","0"," ">>
F_REF == <<"r","e","f"," ","2","0","0","0","0"," ">>
F_HELLO == <<"h","e","l","l","o"," ">>

Sentences == {F_CHARGED, F_PAYMENT_WAS, F_AMOUNT_CENT, F_TOTAL, F_REF, F_HELLO}

SUBJ_NONE == <<>>
SUBJ_RECEIPT == <<"R","e","c","e","i","p","t"," ","f","r","o","m"," ","N","e","t","f","l","i","x">>
SUBJ_ITEMS == <<"2"," ","i","t","e","m","s">>

Subjects == {SUBJ_NONE, SUBJ_RECEIPT, SUBJ_ITEMS}

RECURSIVE Concat(_)
Concat(parts) == IF parts = <<>> THEN <<>> ELSE Head(parts) \o Concat(Tail(parts))

Bodies == {Concat(parts) : parts \in ListsOver(Sentences, MaxSentences)}

InitEmail ==
    /\ pc = "email"
    /\ str_arg \in [subject : Subjects, body : Bodies]
    /\ returns = <<>>
    /\ ClassifierIdle /\ StatementIdle /\ MailIdle

\* _parse_email_message(email_message)
ParseEmailMessage ==
    /\ pc = "email" /\ returns = <<>>
    /\ returns' = <<parse_email_message(str_arg.subject, str_arg.body)>>
    /\ UNCHANGED <<classifierVars, str_arg, statementVars, mailVars>>

NextEmail == ParseEmailMessage

SpecEmail == InitEmail /\ [][NextEmail]_vars

\* the amounts the phrase-anchored patterns match that are above 0.01
AnchoredAmounts == amounts_found(Lower(str_arg.subject \o <<"\n">> \o str_arg.body))

\* C22: _parse_email_message: if a phrase-anchored pattern matches an amount
\* above 0.01, one record is emitted per such match and the loose pattern is
\* not used; otherwise, only if a merchant was identified, at most one record
\* is emitted and its amount lies in 1.00..10000.00; in every other case no
\* record is emitted.
C22_AnchoredThenFallback ==
    (pc = "email" /\ returns # <<>>) =>
        LET records == returns[1]
            anchored == AnchoredAmounts
        IN  IF anchored # <<>>
            THEN /\ Len(records) = Len(anchored)
                 /\ \A n \in 1..Len(records) : records[n]["amount"] = anchored[n]
            ELSE IF extract_merchant_from_email(str_arg.subject, str_arg.body) # <<>>
            THEN /\ Len(records) <= 1
                 /\ \A n \in 1..Len(records) :
                        /\ 100 <= records[n]["amount"]
                        /\ records[n]["amount"] <= 1000000
            ELSE records = <<>>

\* a message whose anchored match is not above 0.01 and that holds two
\* amounts of the range: one record, of the first of them
C22_Witness ==
    /\ pc = "email" /\ returns # <<>>
    /\ str_arg.subject = SUBJ_ITEMS
    /\ str_arg.body = F_AMOUNT_CENT \o F_TOTAL
    /\ AnchoredAmounts = <<>>
    /\ Len(returns[1]) = 1 /\ returns[1][1]["amount"] = 200

(***************************************************************************)
(* _classify_single as a function of the description and the merchant.     *)
(***************************************************************************)
MaxWords == 2      \* most words of a description

WD_GYM == <<"G","y","m"," ">>
WD_NETFLIX == <<"N","e","t","f","l","i","x"," ">>
WD_ADOBE == <<"A","d","o","b","e"," ">>
WD_TIMES == <<"T","i","m","e","s"," ">>
WD_SUBSCRIPTION == <<"s","u","b","s","c","r","i","p","t","i","o","n"," ">>
WD_DISNEY == <<"D","i","s","n","e","y"," ">>
WD_SHOP == <<"S","h","o","p"," ">>

Words == {WD_GYM, WD_NETFLIX, WD_ADOBE, WD_TIMES, WD_SUBSCRIPTION, WD_DISNEY, WD_SHOP}

WordLists == {Concat(parts) : parts \in ListsOver(Words, MaxWords)}

InitSingle ==
    /\ pc = "single"
    /\ str_arg \in {Parsed(0, description, merchant, 1000) :
                       description \in WordLists,
                       merchant \in {<<>>, <<"S","p","o","r","t">>}}
    /\ returns = <<>>
    /\ ClassifierIdle /\ StatementIdle /\ MailIdle

\* _classify_single(transaction)
ClassifySingle ==
    /\ pc = "single" /\ returns = <<>>
    /\ returns' = <<classify_single(str_arg)>>
    /\ UNCHANGED <<classifierVars, str_arg, statementVars, mailVars>>

NextSingle == ClassifySingle

SpecSingle == InitSingle /\ [][NextSingle]_vars

\* the uppercased description and merchant of the argument
SingleText == Upper(str_arg.description) \o <<" ">> \o Upper(str_arg.merchant)

\* the type buckets in their order
Buckets ==
    << <<"Sport", sport_keywords>>, <<"Streaming", streaming_keywords>>,
       <<"Software", software_keywords>>, <<"News", news_keywords>> >>

\* C23: rule-based _classify_single: for a record whose uppercased
\* description and merchant hold a membership keyword, membership_type is the
\* first bucket, in the order Sport, Streaming, Software, News, one of whose
\* keywords occurs in that text, and Services when none occurs; for a record
\* with no membership keyword, is_membership is false and membership_type and
\* frequency are null.
C23_FirstBucket ==
    (pc = "single" /\ returns # <<>>) =>
        LET matching == {n \in 1..Len(Buckets) : AnyIn(Buckets[n][2], SingleText)}
        IN  IF AnyIn(membership_keywords, SingleText)
            THEN returns[1].membership_type =
                     IF matching = {} THEN "Services"
                     ELSE Buckets[CHOOSE n \in matching : \A m \in matching : n <= m][1]
            ELSE /\ returns[1].is_membership = FALSE
                 /\ returns[1].membership_type = None
                 /\ returns[1].frequency = None

\* a record that holds a streaming keyword and a sport keyword: Sport
C23_Witness ==
    /\ pc = "single" /\ returns # <<>>
    /\ AnyIn(membership_keywords, SingleText)
    /\ AnyIn(streaming_keywords, SingleText) /\ AnyIn(sport_keywords, SingleText)
    /\ returns[1].membership_type = "Sport"

(***************************************************************************)
(* src/main.py: get_frequency_analysis (lines 294-314).  transactions      *)
(* holds the rows the query of lines 297-299 returns: the stored           *)
(* transactions whose is_membership is true.                               *)
(***************************************************************************)
\* the rows of the table that the query can return
StoredMemberships ==
    {p \in PayPool : p.is_membership /\ "is_membership" \in p.keys}

\* lines 302-310: the dicts built from the rows
transactions_dict(memberships) ==
    [k \in 1..Len(memberships) |->
        [memberships[k] EXCEPT !.keys = {"date", "amount", "category", "merchant"}]]

InitEndpoint ==
    /\ pc = "endpoint"
    /\ transactions \in ListsOver(StoredMemberships, MaxPay)
    /\ payments_in = <<>>
    /\ frequency_analysis = NoAnalysis
    /\ use_ai = FALSE /\ i = 0 /\ classified = <<>> /\ memberships_only = <<>>
    /\ requests = <<>> /\ responses = <<>> /\ after_pass = <<>>
    /\ argument = <<>>
    /\ TextIdle /\ StatementIdle /\ MailIdle

\* lines 302-314
GetFrequencyAnalysis ==
    /\ pc = "endpoint"
    /\ payments_in' = transactions_dict(transactions)
    /\ frequency_analysis' = analyze_frequency(payments_in')
    /\ pc' = "responded"
    /\ UNCHANGED <<use_ai, transactions, i, classified, memberships_only,
                   requests, responses, after_pass>>
    /\ UNCHANGED <<argument, textVars, statementVars, mailVars>>

NextEndpoint == GetFrequencyAnalysis

SpecEndpoint == InitEndpoint /\ [][NextEndpoint]_vars

\* C24: analyze_frequency given the membership-only records that the
\* frequency-analysis endpoint builds from the stored memberships: every
\* category with at least 2 of those records has an entry in the mapping
\* returned.
C24_EndpointCategories ==
    pc = "responded" =>
        \A k \in 1..Len(transactions) :
            Cardinality({j \in 1..Len(transactions) :
                            transactions[j].category = transactions[k].category}) >= 2
            => transactions[k].category \in DOMAIN frequency_analysis

(***************************************************************************)
(* src/llm_classifier.py: _add_monthly_costs (lines 376-411) on the lists  *)
(* that line 74 passes to it: records flagged as memberships, each with a  *)
(* category and a frequency, the frequency possibly null or a label that   *)
(* no branch of lines 394-403 names.                                       *)
(***************************************************************************)
MaxMembers == 3    \* longest list given to _add_monthly_costs

F_EVERY_N_DAYS == "Every 45 days"

Frequencies == {None, F_EVERY_N_DAYS, "Yearly", "Weekly"}

Member(category, frequency, amount) ==
    Update(Parsed(0, category, category, amount),
           [is_membership |-> TRUE, membership_type |-> "Streaming",
            frequency |-> frequency, category |-> category])

Members ==
    {Member(category, frequency, amount) :
        category \in {C_NETFLIX, C_GYM}, frequency \in Frequencies,
        amount \in {1000, 2000}}

InitCosts ==
    /\ pc = "costs"
    /\ transactions \in ListsOver(Members, MaxMembers)
    /\ memberships_only = [k \in 1..Len(transactions) |-> k]
    /\ after_pass = transactions
    /\ use_ai = FALSE /\ i = 0 /\ classified = <<>>
    /\ requests = <<>> /\ responses = <<>>
    /\ payments_in = <<>> /\ frequency_analysis = NoAnalysis
    /\ argument = <<>>
    /\ TextIdle /\ StatementIdle /\ MailIdle

\* the call of line 74 alone
NextCosts == AddMonthlyCosts

SpecCosts == InitCosts /\ [][NextCosts]_vars

\* the first record, in list order, of the category of record k
FirstOf(k) == CHOOSE j \in Group(k) : \A m \in Group(k) : j <= m

\* C25: in _add_monthly_costs the frequency that converts a category's mean
\* amount is that of the first record of the category in list order; records
\* of one category with different frequencies all receive the monthly_cost
\* computed from that first frequency; a null or unrecognised frequency
\* (an "Every N days" label) is converted as Monthly, the mean unchanged.
C25_FirstFrequency ==
    pc = "done" =>
        \A k \in 1..Len(transactions) :
            LET frequency == after_pass[FirstOf(k)].frequency
                sum == AmountsOf(Group(k))
                len == Cardinality(Group(k))
                cost == transactions[k].monthly_cost
            IN  /\ cost = transactions[FirstOf(k)].monthly_cost
                /\ frequency = "Yearly" => Nearest(cost, sum, len * 12)
                /\ frequency = "Weekly" => Nearest(cost, sum * 433, len * 100)
                /\ frequency \in {None, F_EVERY_N_DAYS} => Nearest(cost, sum, len)

\* a category whose first record has an "Every N days" label and whose second
\* is Yearly: both carry the mean amount; and a category whose first record is
\* Yearly and whose second has a null frequency: both carry the mean over 12
C25_Witness ==
    /\ pc = "done"
    /\ Len(transactions) = 2
    /\ transactions[1].category = transactions[2].category
    /\ transactions[1].amount = 1000 /\ transactions[2].amount = 2000
    /\ transactions[1].frequency = F_EVERY_N_DAYS
    /\ transactions[2].frequency = "Yearly"
    /\ transactions[1].monthly_cost = 1500
    /\ transactions[2].monthly_cost = 1500

====
